---- MODULE Spec2Model ----
(***************************************************************************)
(* Image-source resolution of the graphic studio: the data-URL codec, the  *)
(* payload normalizer (services/imageSourceService.ts) and the refinement  *)
(* input resolver with refineGraphic (the Gemini service); then the OpenAI *)
(* image service, generateGraphic, the catalog with its votes and the     *)
(* CatalogModal, and the profile photo upload.  Each has a specification   *)
(* of its own over the same variables, those of the others staying idle;   *)
(* further specifications run two of them on one input (the normalizer     *)
(* beside the resolver, the adapters' images through the normalizer) or    *)
(* let voteItem calls overlap.                                             *)
(*                                                                         *)
(* A JavaScript string is a sequence of tokens.  A token is one character  *)
(* (";", ",", " ", a line feed, a base64 letter) or an atomic chunk of     *)
(* characters none of which is special to the code ("image/png",           *)
(* "https://cdn/img"), or one of the two literals the data-URL pattern     *)
(* looks for ("data:", ";base64,") in lower or upper case.  The value      *)
(* undefined and a non-string value are two reserved one-token sequences.  *)
(***************************************************************************)
EXTENDS Integers, Sequences, FiniteSets, TLC

VARIABLES
    pc,         \* position of the operation under way
    value,      \* argument of parseDataUrl
    parsed,     \* result of parseDataUrl
    image,      \* the ImageSource / GeneratedImage record handled
    norm,       \* getImagePayload: its locals rawBase64, rawMimeType and its result
    blobUrl,    \* what decodeBase64ToBytes or createBlobUrlFromImage settled with
    apiKey,     \* customApiKey given to refineGraphic
    loc,        \* resolveImageInputForRefinement: its locals base64Data, mimeType
    fetches,    \* the fetch(imageUrl) calls issued, in order
    response,   \* what the fetch settled with
    sourceImage, \* refineGraphic: the payload resolveImageInputForRefinement returned
    warnings,   \* the mime types console.warn reported as possibly unsupported
    calls,      \* the ai.models.generateContent calls issued, in order
    outcome,    \* how refineGraphic settled: the image returned or the error thrown
    generation, \* what the generateContent call settled with
    request,    \* arguments of generateOpenAIImage
    requests,   \* the HTTP requests sent to the OpenAI images endpoint, in order
    httpResponse, \* what the OpenAI request settled with
    generated,  \* how generateOpenAIImage settled
    providerResponse, \* argument of extractImageFromResponse
    extraction, \* result of extractImageFromResponse
    collection, \* the documents of one catalog collection, in document-id order
    queried,    \* getCatalogItems: its argument and the queries it has run
    catalogItems, \* what getCatalogItems returned
    store,      \* the catalog documents votes are cast on, by collection and id
    voting,     \* the voteItem calls under way
    modal,      \* CatalogModal: its userId, category and local items
    voteLog,    \* how the voteItem calls settled, in order
    errorLog,   \* what console.error reported, in order
    initialStore, \* the catalog documents as they were before the first call
    storage,    \* the objects held by Firebase Storage, by path
    uploading,  \* the uploadProfileImage call under way
    uploads     \* how the uploadProfileImage calls settled, in order

parseVars == <<value, parsed>>
payloadVars == <<norm, blobUrl>>
refineVars == <<apiKey, loc, fetches, response, sourceImage, warnings, calls, outcome,
                generation>>
openaiVars == <<request, requests, httpResponse, generated>>
extractVars == <<providerResponse, extraction>>
catalogVars == <<collection, queried, catalogItems>>
voteVars == <<store, voting, modal, voteLog, errorLog, initialStore>>
uploadVars == <<storage, uploading, uploads>>
serviceVars == <<openaiVars, extractVars, catalogVars, voteVars, uploadVars>>
imageSourceVars == <<image, parseVars, payloadVars, refineVars>>
vars == <<pc, imageSourceVars, serviceVars>>

-----------------------------------------------------------------------------
(* Bounds of the model *)

\* longest string, in tokens, given to parseDataUrl
MaxLen == 4
\* most content parts in one candidate of a provider response
MaxParts == 2
\* most documents of a catalog collection besides its filler documents
MaxDocs == 3
\* most voteItem calls, most clicks on a vote button
MaxVotes == 2
\* most uploadProfileImage calls
MaxUploads == 2
\* most fields an ImageSource given to getImagePayload carries
MaxPresent == 3
\* longest body, in bytes, of a fetch response
MaxBody == 2

-----------------------------------------------------------------------------
(* JavaScript values and strings *)

undefined == <<"<undefined>">>
NonString == <<"<object>">>
null == [isNull |-> TRUE]

IsString(v) == v # undefined /\ v # NonString

\* typeof x === "string" ? x : ""
StringOrEmpty(v) == IF IsString(v) THEN v ELSE <<>>

\* x || "" for a field typed string | undefined
OrEmpty(v) == IF v = undefined THEN <<>> ELSE v

UpperLetters == <<"A","B","C","D","E","F","G","H","I","J","K","L","M",
                  "N","O","P","Q","R","S","T","U","V","W","X","Y","Z">>
LowerLetters == <<"a","b","c","d","e","f","g","h","i","j","k","l","m",
                  "n","o","p","q","r","s","t","u","v","w","x","y","z">>

\* upper-case chunks of the model's alphabet and their lower-case forms
UpperChunks == <<"DATA:", ";BASE64,", "IMAGE/JPEG", "IMAGE/WEBP">>
LowerChunks == <<"data:", ";base64,", "image/jpeg", "image/webp">>

Uppers == UpperLetters \o UpperChunks
Lowers == LowerLetters \o LowerChunks

\* toLowerCase of one token, for the tokens that change
LowerOf ==
    [c \in {Uppers[i] : i \in DOMAIN Uppers} |->
        Lowers[CHOOSE i \in DOMAIN Uppers : Uppers[i] = c]]

LowerTok(c) == IF c \in DOMAIN LowerOf THEN LowerOf[c] ELSE c

\* String.prototype.toLowerCase
ToLowerCase(s) == [i \in DOMAIN s |-> LowerTok(s[i])]

\* the tokens \s matches, which are also the ones trim() removes; "<nbsp>" is
\* the no-break space U+00A0
IsSpace(c) == c \in {" ", "\t", "\n", "\r", "\f", "<nbsp>"}
\* ASCII whitespace, the tokens atob drops
IsAsciiSpace(c) == c \in {" ", "\t", "\n", "\r", "\f"}
\* the tokens "." does not match
IsLineTerminator(c) == c \in {"\n", "\r"}

RECURSIVE TrimStart(_)
TrimStart(s) == IF s # <<>> /\ IsSpace(Head(s)) THEN TrimStart(Tail(s)) ELSE s

RECURSIVE TrimEnd(_)
TrimEnd(s) ==
    IF s # <<>> /\ IsSpace(s[Len(s)]) THEN TrimEnd(SubSeq(s, 1, Len(s) - 1)) ELSE s

\* String.prototype.trim
Trim(s) == TrimEnd(TrimStart(s))

NotSpace(c) == ~IsSpace(c)
\* s.replace(/\s+/g, "")
StripWhitespace(s) == SelectSeq(s, NotSpace)

\* the characters ";" and "," inside a token
HasSemicolon(c) == c \in {";", ";base64,", ";BASE64,"}
HasComma(c) == c \in {",", ";base64,", ";BASE64,"}

-----------------------------------------------------------------------------
(* The data-URL codec *)

\* [^;,]
NotSemicolonComma(c) == ~HasSemicolon(c) /\ ~HasComma(c)

\* /^data:([^;,]+)?(?:;[^,]*)?;base64,(.+)$/i on s: the ways to split s into
\* "data:", group 1 = s[2..a], the optional parameters s[a+1..k-1], the literal
\* ";base64," at k and group 2 = s[k+1..Len(s)]
DataUrlSplits(s) ==
    {ak \in (1..Len(s)) \X (1..Len(s)) :
        LET a == ak[1]
            k == ak[2]
        IN  /\ LowerTok(s[1]) = "data:"
            /\ a < k
            /\ \A i \in 2..a : NotSemicolonComma(s[i])
            /\ \/ k = a + 1
               \/ /\ s[a + 1] = ";"
                  /\ \A i \in (a + 2)..(k - 1) : ~HasComma(s[i])
            /\ LowerTok(s[k]) = ";base64,"
            /\ k < Len(s)
            /\ \A i \in (k + 1)..Len(s) : ~IsLineTerminator(s[i])}

\* the split the greedy quantifiers settle on: the longest group 1, then the
\* longest parameters
GreedySplit(s) ==
    CHOOSE ak \in DataUrlSplits(s) :
        \A other \in DataUrlSplits(s) :
            \/ other[1] < ak[1]
            \/ other[1] = ak[1] /\ other[2] <= ak[2]

\* value.match(DATA_URL_REGEX): group 1 (empty when it took no part) and group 2
DATA_URL_REGEX(s) ==
    IF DataUrlSplits(s) = {}
    THEN [matched |-> FALSE, group1 |-> <<>>, group2 |-> <<>>]
    ELSE [matched |-> TRUE,
          group1 |-> SubSeq(s, 2, GreedySplit(s)[1]),
          group2 |-> SubSeq(s, GreedySplit(s)[2] + 1, Len(s))]

\* parseDataUrl returning group 1 as matched, without .toLowerCase()
parseDataUrl_KeepCase(v) ==
    IF v = undefined \/ v = <<>> THEN null
    ELSE IF ~DATA_URL_REGEX(v).matched THEN null
    ELSE [mimeType |-> DATA_URL_REGEX(v).group1,
          base64Data |-> DATA_URL_REGEX(v).group2]

\* imageSourceService.ts parseDataUrl
parseDataUrl(v) ==
    IF v = undefined \/ v = <<>> THEN null
    ELSE IF ~DATA_URL_REGEX(v).matched THEN null
    ELSE [mimeType |-> ToLowerCase(DATA_URL_REGEX(v).group1),
          base64Data |-> DATA_URL_REGEX(v).group2]

\* the Gemini service's parseDataUrl, with the same pattern written inline
geminiParseDataUrl(v) ==
    IF v = undefined \/ v = <<>> THEN null
    ELSE IF ~DATA_URL_REGEX(v).matched THEN null
    ELSE [mimeType |-> ToLowerCase(DATA_URL_REGEX(v).group1),
          base64Data |-> DATA_URL_REGEX(v).group2]

\* no refinement under way
RefineIdle ==
    /\ apiKey = undefined /\ loc = null /\ fetches = <<>> /\ response = null
    /\ sourceImage = null /\ warnings = <<>> /\ calls = <<>> /\ outcome = null
    /\ generation = null

\* no call of the OpenAI service, of the catalog, of the storage under way
OpenAIIdle == request = null /\ requests = <<>> /\ httpResponse = null /\ generated = null
ExtractIdle == providerResponse = null /\ extraction = null
CatalogIdle == collection = <<>> /\ queried = null /\ catalogItems = null
VoteIdle ==
    /\ store = <<>> /\ voting = <<>> /\ modal = null /\ voteLog = <<>>
    /\ errorLog = <<>> /\ initialStore = <<>>
UploadIdle == storage = <<>> /\ uploading = null /\ uploads = <<>>
ServicesIdle == OpenAIIdle /\ ExtractIdle /\ CatalogIdle /\ VoteIdle /\ UploadIdle
ImageSourceIdle ==
    /\ value = undefined /\ parsed = null /\ image = <<>> /\ norm = null
    /\ blobUrl = null
    /\ RefineIdle

\* the strings given to parseDataUrl
ParseAlphabet ==
    {"data:", "DATA:", ";base64,", ";BASE64,", ";", ",", " ", "\n",
     "Q", "IMAGE/JPEG"}

RECURSIVE StringsUpTo(_, _)
StringsUpTo(alphabet, n) ==
    IF n = 0 THEN {<<>>}
    ELSE LET shorter == StringsUpTo(alphabet, n - 1)
         IN  shorter \cup {Append(s, c) : s \in shorter, c \in alphabet}

ParseInputs == {undefined} \cup StringsUpTo(ParseAlphabet, MaxLen)

InitParse ==
    /\ pc = "parse"
    /\ value \in ParseInputs
    /\ parsed = null /\ image = <<>> /\ norm = null /\ blobUrl = null
    /\ RefineIdle /\ ServicesIdle

ParseDataUrl ==
    /\ pc = "parse"
    /\ parsed' = parseDataUrl(value)
    /\ pc' = "parsed"
    /\ UNCHANGED <<value, image, payloadVars, refineVars, serviceVars>>

GeminiParseDataUrl ==
    /\ pc = "parse"
    /\ parsed' = geminiParseDataUrl(value)
    /\ pc' = "geminiParsed"
    /\ UNCHANGED <<value, image, payloadVars, refineVars, serviceVars>>

NextParse == ParseDataUrl \/ GeminiParseDataUrl

SpecParse == InitParse /\ [][NextParse]_vars

\* value is data:<mime>;base64,<payload> with the literal ";base64," at i, a
\* mime string free of ";" and "," and a non-empty payload
WellFormedAt(i) ==
    /\ value # undefined
    /\ i \in 3..(Len(value) - 1)
    /\ value[1] = "data:"
    /\ value[i] = ";base64,"
    /\ \A j \in 2..(i - 1) : NotSemicolonComma(value[j])

MimeAt(i) == SubSeq(value, 2, i - 1)
PayloadAt(i) == SubSeq(value, i + 1, Len(value))
HasLineBreak(s) == \E j \in DOMAIN s : IsLineTerminator(s[j])

\* C7 as stated: for every well-formed data URL data:<mime>;base64,<payload>
\* both parseDataUrl functions return exactly <mime> and exactly <payload>,
\* whatever the letter case of the mime string and whatever the payload.
C7_ParseReturnsMimeUnchanged ==
    pc \in {"parsed", "geminiParsed"} =>
        \A i \in 1..MaxLen + 1 :
            WellFormedAt(i) =>
                parsed = [mimeType |-> MimeAt(i), base64Data |-> PayloadAt(i)]

\* C7 as amended: for every well-formed data URL whose payload holds no line
\* break, both parseDataUrl functions return <mime> converted to lower case and
\* <payload> unchanged; a payload holding a line break is not matched and the
\* result is null.
C7_ParseReturnsLowerCasedMime ==
    pc \in {"parsed", "geminiParsed"} =>
        \A i \in 1..MaxLen + 1 :
            WellFormedAt(i) =>
                IF HasLineBreak(PayloadAt(i))
                THEN parsed = null
                ELSE parsed = [mimeType |-> ToLowerCase(MimeAt(i)),
                               base64Data |-> PayloadAt(i)]

\* data:IMAGE/JPEG;base64,Q parsed to image/jpeg and Q
C7_Witness ==
    /\ pc = "parsed"
    /\ value = <<"data:", "IMAGE/JPEG", ";base64,", "Q">>
    /\ parsed = [mimeType |-> <<"image/jpeg">>, base64Data |-> <<"Q">>]

-----------------------------------------------------------------------------
(* The payload normalizer *)

Fields ==
    {"imageUrl", "base64Data", "mimeType",
     "base64", "b64_json", "b64Json", "imageBytes", "mime", "contentType"}

\* a || b
Or(a, b) == IF a # undefined /\ a # <<>> THEN a ELSE b

\* getImagePayload, the local rawBase64
rawBase64(img) ==
    Trim(Or(img.base64Data,
         Or(StringOrEmpty(img.base64),
         Or(StringOrEmpty(img.b64_json),
         Or(StringOrEmpty(img.b64Json),
            StringOrEmpty(img.imageBytes))))))

\* getImagePayload, the local rawMimeType
rawMimeType(img) ==
    ToLowerCase(Trim(Or(img.mimeType,
                     Or(StringOrEmpty(img.mime),
                        StringOrEmpty(img.contentType)))))

IMAGE_PNG == <<"image/png">>

\* getImagePayload letting the sibling mime type win over the embedded one
getImagePayload_SiblingMimeFirst(img) ==
    LET parsedInline == parseDataUrl(rawBase64(img))
        parsedUrl == parseDataUrl(Trim(OrEmpty(img.imageUrl)))
    IN  IF parsedInline # null /\ parsedInline.base64Data # <<>>
        THEN [base64Data |-> parsedInline.base64Data,
              mimeType |-> Or(rawMimeType(img), Or(parsedInline.mimeType, IMAGE_PNG))]
        ELSE IF rawBase64(img) # <<>>
        THEN [base64Data |-> rawBase64(img),
              mimeType |-> Or(rawMimeType(img), IMAGE_PNG)]
        ELSE IF parsedUrl # null /\ parsedUrl.base64Data # <<>>
        THEN [base64Data |-> parsedUrl.base64Data,
              mimeType |-> Or(parsedUrl.mimeType, Or(rawMimeType(img), IMAGE_PNG))]
        ELSE null

\* getImagePayload trying imageUrl before the raw base64 candidate
getImagePayload_UrlBeforeRaw(img) ==
    LET parsedInline == parseDataUrl(rawBase64(img))
        parsedUrl == parseDataUrl(Trim(OrEmpty(img.imageUrl)))
    IN  IF parsedInline # null /\ parsedInline.base64Data # <<>>
        THEN [base64Data |-> parsedInline.base64Data,
              mimeType |-> Or(parsedInline.mimeType, Or(rawMimeType(img), IMAGE_PNG))]
        ELSE IF parsedUrl # null /\ parsedUrl.base64Data # <<>>
        THEN [base64Data |-> parsedUrl.base64Data,
              mimeType |-> Or(parsedUrl.mimeType, Or(rawMimeType(img), IMAGE_PNG))]
        ELSE IF rawBase64(img) # <<>>
        THEN [base64Data |-> rawBase64(img),
              mimeType |-> Or(rawMimeType(img), IMAGE_PNG)]
        ELSE null

getImagePayload(img) ==
    LET parsedInline == parseDataUrl(rawBase64(img))
        parsedUrl == parseDataUrl(Trim(OrEmpty(img.imageUrl)))
    IN  IF parsedInline # null /\ parsedInline.base64Data # <<>>
        THEN [base64Data |-> parsedInline.base64Data,
              mimeType |-> Or(parsedInline.mimeType, Or(rawMimeType(img), IMAGE_PNG))]
        ELSE IF rawBase64(img) # <<>>
        THEN [base64Data |-> rawBase64(img),
              mimeType |-> Or(rawMimeType(img), IMAGE_PNG)]
        ELSE IF parsedUrl # null /\ parsedUrl.base64Data # <<>>
        THEN [base64Data |-> parsedUrl.base64Data,
              mimeType |-> Or(parsedUrl.mimeType, Or(rawMimeType(img), IMAGE_PNG))]
        ELSE null

\* the values a base64 field was seen to hold: blank, raw base64 (clean, or
\* with white space around and inside), data URLs (lower and upper case, with
\* and without mime type and parameters, padded) and a data URL whose payload
\* is broken over two lines
Base64Values ==
    {<<>>, <<" ">>,
     <<"Q", "k">>,
     <<" ", "k", "\n", "Q", " ">>,
     <<"data:", "image/jpeg", ";base64,", "A", "B", "C">>,
     <<"DATA:", "IMAGE/WEBP", ";BASE64,", "k", "Q">>,
     <<"data:", ";base64,", "k">>,
     <<" ", "data:", "image/jpeg", ";", "charset=utf-8", ";base64,", "Q", "\n">>,
     <<"data:", "image/jpeg", ";base64,", "Q", "\n", "k">>}

AliasValues ==
    {<<>>, <<" ">>, NonString,
     <<"k">>,
     <<" ", "Q", "k">>,
     <<"data:", "image/webp", ";base64,", "k">>}

MimeValues == {<<>>, <<" ">>, <<"image/png">>, <<" ", "IMAGE/WEBP", " ">>}
MimeAliasValues == {<<" ">>, NonString, <<"image/jpeg">>, <<"IMAGE/WEBP">>}

UrlValues ==
    {<<>>,
     <<"https://cdn/img">>,
     <<"data:", "image/png", ";base64,", "X", "Y", "Z">>,
     <<" ", "DATA:", ";BASE64,", "k", " ">>,
     <<"data:", "image/jpeg", ";base64,">>}

FieldValues(f) ==
    CASE f = "base64Data" -> Base64Values
      [] f \in {"base64", "b64_json", "b64Json", "imageBytes"} -> AliasValues
      [] f = "mimeType" -> MimeValues
      [] f \in {"mime", "contentType"} -> MimeAliasValues
      [] f = "imageUrl" -> UrlValues

Present(img) == {f \in Fields : img[f] # undefined}

\* the records carrying exactly the fields of `present`
RecordsWith(present) ==
    LET V(f) == IF f \in present THEN FieldValues(f) ELSE {undefined}
    IN  [imageUrl : V("imageUrl"), base64Data : V("base64Data"),
         mimeType : V("mimeType"), base64 : V("base64"), b64_json : V("b64_json"),
         b64Json : V("b64Json"), imageBytes : V("imageBytes"), mime : V("mime"),
         contentType : V("contentType")]

InitPayload ==
    /\ pc = "normalize"
    /\ \E present \in SUBSET Fields :
        /\ Cardinality(present) <= MaxPresent
        /\ image \in RecordsWith(present)
    /\ norm = null /\ blobUrl = null
    /\ value = undefined /\ parsed = null
    /\ RefineIdle /\ ServicesIdle

GetImagePayload ==
    /\ pc = "normalize"
    /\ norm' = [rawBase64 |-> rawBase64(image),
                rawMimeType |-> rawMimeType(image),
                result |-> getImagePayload(image)]
    /\ pc' = "normalized"
    /\ UNCHANGED <<image, blobUrl, parseVars, refineVars, serviceVars>>

NextPayload == GetImagePayload

SpecPayload == InitPayload /\ [][NextPayload]_vars

(* Claims about the payload normalizer *)

Base64Order == <<"base64Data", "base64", "b64_json", "b64Json", "imageBytes">>

\* the positions of Base64Order whose field holds a string that is not empty
\* once trimmed
NonBlankFields(img) ==
    {i \in DOMAIN Base64Order :
        IsString(img[Base64Order[i]]) /\ Trim(img[Base64Order[i]]) # <<>>}

\* the trimmed value of the first such field, empty when there is none
FirstNonBlank(img) ==
    IF NonBlankFields(img) = {} THEN <<>>
    ELSE Trim(img[Base64Order[
            CHOOSE i \in NonBlankFields(img) : \A j \in NonBlankFields(img) : i <= j]])

\* C1: the base64 candidate of getImagePayload is the first field, in the
\* order base64Data, base64, b64_json, b64Json, imageBytes, whose value is
\* non-empty after trimming; blank (absent, empty, whitespace-only) earlier
\* fields are passed over.
C1_CandidateIsFirstNonBlankField ==
    pc = "normalized" => norm.rawBase64 = FirstNonBlank(image)

\* the strings of the form data:<mime>[;<parameters>];base64,<payload>, built
\* from their parts; a payload is a non-empty run of characters of one line
MimeParts == {<<>>, <<"image/jpeg">>, <<"image/png">>, <<"image/webp">>, <<"IMAGE/WEBP">>}
ParameterParts == {<<>>, <<";", "charset=utf-8">>}
PayloadParts == {<<"A", "B", "C">>, <<"X", "Y", "Z">>, <<"k">>, <<"k", "Q">>, <<"Q">>}
DataUrlParts ==
    [scheme : {"data:", "DATA:"}, mime : MimeParts, parameters : ParameterParts,
     marker : {";base64,", ";BASE64,"}, payload : PayloadParts]
DataUrlOf(d) == <<d.scheme>> \o d.mime \o d.parameters \o <<d.marker>> \o d.payload

DataUrls == {DataUrlOf(d) : d \in DataUrlParts}
IsDataUrl(s) == s \in DataUrls
\* the parts a data URL was built from
PartsOf == [u \in DataUrls |-> {d \in DataUrlParts : DataUrlOf(d) = u}]

\* the payload a data URL must be unwrapped to, given the sibling mime type
Unwrapped(d, sibling) ==
    [base64Data |-> d.payload,
     mimeType |-> IF d.mime # <<>> THEN ToLowerCase(d.mime)
                  ELSE IF sibling # <<>> THEN sibling
                  ELSE IMAGE_PNG]

\* C2: when the collected base64 candidate is a data URL (either letter case),
\* getImagePayload returns the embedded payload with the embedded mime type
\* (reported in lower case) when there is one, otherwise with the collected
\* sibling mime type, whatever imageUrl holds.
C2_DataUrlCandidateIsUnwrapped ==
    pc = "normalized" =>
        (IsDataUrl(norm.rawBase64) =>
            \A d \in PartsOf[norm.rawBase64] :
                norm.result = Unwrapped(d, norm.rawMimeType))

\* {base64Data: "data:image/jpeg;base64,ABC", mimeType: "image/png"} gave
\* {mimeType: "image/jpeg", base64Data: "ABC"}
C2_Witness ==
    /\ pc = "normalized"
    /\ image.base64Data = <<"data:", "image/jpeg", ";base64,", "A", "B", "C">>
    /\ image.mimeType = <<"image/png">>
    /\ norm.result = [base64Data |-> <<"A", "B", "C">>, mimeType |-> <<"image/jpeg">>]

\* C3: a raw (non-data-URL) base64 candidate is returned with the collected
\* mime type or image/png whatever imageUrl holds; with no base64 candidate
\* and an imageUrl that is a data URL, the URL's payload is returned with the
\* embedded mime type, else the collected one, else image/png.
C3_ImageUrlOnlyWithoutCandidate ==
    pc = "normalized" =>
        /\ (norm.rawBase64 # <<>> /\ ~IsDataUrl(norm.rawBase64)) =>
                norm.result =
                    [base64Data |-> norm.rawBase64,
                     mimeType |-> IF norm.rawMimeType # <<>> THEN norm.rawMimeType
                                  ELSE IMAGE_PNG]
        /\ (norm.rawBase64 = <<>> /\ IsDataUrl(Trim(OrEmpty(image.imageUrl)))) =>
                \A d \in PartsOf[Trim(OrEmpty(image.imageUrl))] :
                    norm.result = Unwrapped(d, norm.rawMimeType)

\* {imageUrl: "data:image/png;base64,XYZ"} gave {image/png, XYZ}
C3_Witness ==
    /\ pc = "normalized"
    /\ Present(image) = {"imageUrl"}
    /\ image.imageUrl = <<"data:", "image/png", ";base64,", "X", "Y", "Z">>
    /\ norm.result = [base64Data |-> <<"X", "Y", "Z">>, mimeType |-> <<"image/png">>]

\* a raw candidate returned although imageUrl holds a data URL
C3_WitnessRaw ==
    /\ pc = "normalized"
    /\ image.base64Data = <<"Q", "k">>
    /\ image.imageUrl = <<"data:", "image/png", ";base64,", "X", "Y", "Z">>
    /\ norm.result = [base64Data |-> <<"Q", "k">>, mimeType |-> <<"image/png">>]

\* C4: getImagePayload returns null exactly when no base64 field or alias has
\* a non-empty trimmed value and imageUrl is absent or is not a data URL.
C4_NullExactlyWhenNoInlineImage ==
    pc = "normalized" =>
        (norm.result = null <=>
            /\ NonBlankFields(image) = {}
            /\ parseDataUrl(Trim(OrEmpty(image.imageUrl))) = null)

HasSpace(s) == \E i \in DOMAIN s : IsSpace(s[i])

\* C6: every non-null payload of getImagePayload has a base64Data free of
\* white space and a non-empty mimeType, image/png when no mime type was found.
C6_PayloadIsCanonical ==
    (pc = "normalized" /\ norm.result # null) =>
        /\ ~HasSpace(norm.result.base64Data)
        /\ norm.result.mimeType # <<>>
        /\ (norm.rawMimeType = <<>> /\ norm.rawBase64 # <<>> /\ ~IsDataUrl(norm.rawBase64))
                => norm.result.mimeType = IMAGE_PNG

-----------------------------------------------------------------------------
(* Base64 *)

Digits == <<"0", "1", "2", "3", "4", "5", "6", "7", "8", "9">>
Base64Alphabet == UpperLetters \o LowerLetters \o Digits \o <<"+", "/">>
Base64Char(n) == Base64Alphabet[n + 1]
Base64Chars == {Base64Alphabet[i] : i \in DOMAIN Base64Alphabet}
IsBase64Char(c) == c \in Base64Chars
Base64IndexOf ==
    [c \in Base64Chars |-> (CHOOSE i \in DOMAIN Base64Alphabet : Base64Alphabet[i] = c) - 1]
Base64Index(c) == Base64IndexOf[c]

\* the base64 text FileReader.readAsDataURL writes for the bytes of a blob
RECURSIVE Base64Encode(_)
Base64Encode(bytes) ==
    IF bytes = <<>> THEN <<>>
    ELSE IF Len(bytes) = 1
    THEN LET n == bytes[1] * 65536
         IN  <<Base64Char(n \div 262144), Base64Char((n \div 4096) % 64), "=", "=">>
    ELSE IF Len(bytes) = 2
    THEN LET n == bytes[1] * 65536 + bytes[2] * 256
         IN  <<Base64Char(n \div 262144), Base64Char((n \div 4096) % 64),
               Base64Char((n \div 64) % 64), "=">>
    ELSE LET n == bytes[1] * 65536 + bytes[2] * 256 + bytes[3]
         IN  <<Base64Char(n \div 262144), Base64Char((n \div 4096) % 64),
               Base64Char((n \div 64) % 64), Base64Char(n % 64)>>
             \o Base64Encode(SubSeq(bytes, 4, Len(bytes)))

\* the bytes of base64 text without padding: four characters give three bytes,
\* a rest of three gives two, a rest of two gives one
RECURSIVE DecodeUnpadded(_)
DecodeUnpadded(s) ==
    IF Len(s) < 2 THEN <<>>
    ELSE IF Len(s) = 2
    THEN LET n == Base64Index(s[1]) * 64 + Base64Index(s[2])
         IN  <<n \div 16>>
    ELSE IF Len(s) = 3
    THEN LET n == (Base64Index(s[1]) * 64 + Base64Index(s[2])) * 64 + Base64Index(s[3])
         IN  <<n \div 1024, (n \div 4) % 256>>
    ELSE LET n == ((Base64Index(s[1]) * 64 + Base64Index(s[2])) * 64
                      + Base64Index(s[3])) * 64 + Base64Index(s[4])
         IN  <<n \div 65536, (n \div 256) % 256, n % 256>>
             \o DecodeUnpadded(SubSeq(s, 5, Len(s)))

\* atob: ASCII white space is dropped, one or two "=" close a text whose length is a
\* multiple of four, and any other text that is not base64 is refused
atob(text) ==
    LET NotAsciiSpace(c) == ~IsAsciiSpace(c)
        s == SelectSeq(text, NotAsciiSpace)
        n == Len(s)
        body == IF n > 0 /\ n % 4 = 0 /\ s[n] = "="
                THEN IF s[n - 1] = "=" THEN SubSeq(s, 1, n - 2) ELSE SubSeq(s, 1, n - 1)
                ELSE s
    IN  IF Len(body) % 4 = 1 \/ \E i \in DOMAIN body : ~IsBase64Char(body[i])
        THEN [ok |-> FALSE, bytes |-> <<>>]
        ELSE [ok |-> TRUE, bytes |-> DecodeUnpadded(body)]

-----------------------------------------------------------------------------
(* decodeBase64ToBytes and createBlobUrlFromImage *)

\* decodeBase64ToBytes that hands its argument to atob as it is
decodeBase64ToBytes_NoStrip(raw) == atob(raw)

\* decodeBase64ToBytes: the Uint8Array of the char codes of atob(base64), or
\* the exception of atob
decodeBase64ToBytes(raw) ==
    LET base64 == StripWhitespace(raw)
        binary == atob(base64)
    IN  IF ~binary.ok THEN binary
        ELSE [ok |-> TRUE,
              bytes |-> [i \in 1..Len(binary.bytes) |-> binary.bytes[i] % 256]]

\* createBlobUrlFromImage that lets the exception of the decoding out
createBlobUrlFromImage_Uncaught(img) ==
    LET payload == getImagePayload(img)
    IN  IF payload = null THEN null
        ELSE [bytes |-> decodeBase64ToBytes(payload.base64Data).bytes,
              type |-> Or(payload.mimeType, IMAGE_PNG)]

\* createBlobUrlFromImage: the blob behind the object URL, or null
createBlobUrlFromImage(img) ==
    LET payload == getImagePayload(img)
    IN  IF payload = null THEN null
        ELSE LET bytes == decodeBase64ToBytes(payload.base64Data)
             IN  IF ~bytes.ok THEN null
                 ELSE [bytes |-> bytes.bytes, type |-> Or(payload.mimeType, IMAGE_PNG)]

\* the texts given to decodeBase64ToBytes, the records given to
\* createBlobUrlFromImage
DecodeAlphabet == {"Q", "g", "=", " ", "\n", "<nbsp>", "-"}
DecodeInputs == StringsUpTo(DecodeAlphabet, MaxLen)
BlobImages ==
    UNION {RecordsWith(present) : present \in SUBSET {"base64Data", "mimeType", "imageUrl"}}

InitBlob ==
    /\ \/ pc = "decode" /\ value \in DecodeInputs /\ image = <<>>
       \/ pc = "blob" /\ value = undefined /\ image \in BlobImages
    /\ blobUrl = null
    /\ parsed = null /\ norm = null
    /\ RefineIdle /\ ServicesIdle

DecodeBase64ToBytes ==
    /\ pc = "decode"
    /\ blobUrl' = decodeBase64ToBytes(value)
    /\ pc' = "decoded"
    /\ UNCHANGED <<value, image, parsed, norm, refineVars, serviceVars>>

CreateBlobUrlFromImage ==
    /\ pc = "blob"
    /\ blobUrl' = createBlobUrlFromImage(image)
    /\ pc' = "blobCreated"
    /\ UNCHANGED <<value, image, parsed, norm, refineVars, serviceVars>>

NextBlob == DecodeBase64ToBytes \/ CreateBlobUrlFromImage

SpecBlob == InitBlob /\ [][NextBlob]_vars

(* Claims about decodeBase64ToBytes and createBlobUrlFromImage *)

\* the text without the characters \s matches, and without its padding
WithoutSpace(s) ==
    LET Kept(c) == c \notin {" ", "\t", "\n", "\r", "\f", "<nbsp>"}
    IN  SelectSeq(s, Kept)
WithoutPadding(s) ==
    LET Kept(c) == c # "="
    IN  SelectSeq(s, Kept)
DecodedBytes == StringsUpTo({65, 66, 130}, 3)
WellFormed(s) ==
    /\ \A i \in DOMAIN WithoutPadding(s) : WithoutPadding(s)[i] \in Base64Chars
    /\ Len(WithoutPadding(s)) % 4 # 1
    /\ \/ s = WithoutPadding(s)
       \/ Len(s) % 4 = 0 /\ Len(s) - Len(WithoutPadding(s)) \in {1, 2}
                         /\ SubSeq(s, 1, Len(WithoutPadding(s))) = WithoutPadding(s)

\* C21: decodeBase64ToBytes gives for a text with white space in it the bytes
\* of the text without the white space, as many as the binary string atob
\* decodes it to: the bytes b when the text without white space is the base64
\* encoding of b, with or without its padding; and createBlobUrlFromImage
\* returns null when its image has no payload or the payload cannot be
\* decoded, and the blob of the decoded bytes otherwise
C21_DecodingIgnoresWhitespace ==
    /\ pc = "decoded" =>
        LET text == WithoutSpace(value)
        IN  /\ blobUrl.ok <=> WellFormed(text)
            /\ blobUrl.ok =>
                /\ Len(blobUrl.bytes) = (3 * Len(WithoutPadding(text))) \div 4
                /\ \A i \in DOMAIN blobUrl.bytes : blobUrl.bytes[i] \in 0..255
            /\ \A b \in DecodedBytes :
                text \in {Base64Encode(b), WithoutPadding(Base64Encode(b))} =>
                    blobUrl = [ok |-> TRUE, bytes |-> b]
    /\ pc = "blobCreated" =>
        LET payload == getImagePayload(image)
            text == WithoutSpace(payload.base64Data)
        IN  IF payload = null THEN blobUrl = null
            ELSE IF ~WellFormed(text) THEN blobUrl = null
            ELSE /\ blobUrl # null
                 /\ blobUrl.type = payload.mimeType
                 /\ Len(blobUrl.bytes) = (3 * Len(WithoutPadding(text))) \div 4

\* "Q<nbsp>g\n" decoded to the one byte 66 of "Qg"
C21_Witness ==
    /\ pc = "decoded"
    /\ value = <<"Q", "<nbsp>", "g", "\n">>
    /\ blobUrl = [ok |-> TRUE, bytes |-> <<66>>]

\* a payload of one character cannot be decoded: null
C21_WitnessNull ==
    /\ pc = "blobCreated"
    /\ getImagePayload(image) # null
    /\ Len(getImagePayload(image).base64Data) = 1
    /\ blobUrl = null

\* a decodable payload: the blob
C21_WitnessBlob ==
    /\ pc = "blobCreated"
    /\ image.base64Data = <<" ", "k", "\n", "Q", " ">>
    /\ blobUrl # null /\ Len(blobUrl.bytes) = 1

-----------------------------------------------------------------------------
(* refineGraphic and the refinement input resolver *)

API_KEY_REQUIRED ==
    <<"API Key Required. Please log in and add your Google Gemini API Key in Settings.">>
SOURCE_UNAVAILABLE ==
    <<"Source image data is unavailable for refinement. Please restore a recent image or generate it again.">>
REFINE_FAILED == <<"Failed to refine image. Please try again.">>
BLOB_NOT_CONVERTED == <<"Failed to convert image blob to base64.">>
BLOB_NOT_READ == <<"Failed to read image blob.">>
NO_CANDIDATES == <<"No candidates returned from API.">>
NO_IMAGE_DATA == <<"No image data found in response.">>
NANO_BANANA_MODEL == "gemini-3-pro-image-preview"

SUPPORTED_INPUT_IMAGE_MIME_TYPES ==
    {<<"image/png">>, <<"image/jpeg">>, <<"image/webp">>, <<"image/heic">>, <<"image/heif">>}

Thrown(message) == [ok |-> FALSE, message |-> message]
Returned(v) == [ok |-> TRUE, value |-> v]

\* getAiClient that builds a client with whatever key it is given
getAiClient_AnyKey(customKey) == Returned(Trim(OrEmpty(customKey)))

\* getAiClient: the key the client is built with, or the error thrown
getAiClient(customKey) ==
    LET key == Trim(OrEmpty(customKey))
    IN  IF key = <<>> THEN Thrown(API_KEY_REQUIRED) ELSE Returned(key)

\* resolveImageInputForRefinement up to the look at imageUrl: base64Data and
\* mimeType read from the record, a data URL in base64Data unwrapped
readAndUnwrap(currentImage) ==
    LET base64Data == Trim(OrEmpty(currentImage.base64Data))
        mimeType == ToLowerCase(Trim(OrEmpty(currentImage.mimeType)))
        parsedInline == geminiParseDataUrl(base64Data)
    IN  IF parsedInline # null
        THEN [base64Data |-> parsedInline.base64Data,
              mimeType |-> Or(parsedInline.mimeType, mimeType)]
        ELSE [base64Data |-> base64Data, mimeType |-> mimeType]

\* the look at imageUrl without the attempt to read it as a data URL
consultImageUrl_AlwaysFetch(currentImage) ==
    LET l == readAndUnwrap(currentImage)
        imageUrl == Trim(OrEmpty(currentImage.imageUrl))
    IN  [base64Data |-> l.base64Data, mimeType |-> l.mimeType,
         fetch |-> (l.base64Data = <<>> \/ l.mimeType = <<>>) /\ imageUrl # <<>>,
         imageUrl |-> imageUrl]

\* ... the look at imageUrl: the locals after it, and whether fetchImageAsBase64
\* is awaited
consultImageUrl(currentImage) ==
    LET l == readAndUnwrap(currentImage)
        imageUrl == Trim(OrEmpty(currentImage.imageUrl))
        parsedUrl == geminiParseDataUrl(imageUrl)
    IN  IF (l.base64Data = <<>> \/ l.mimeType = <<>>) /\ imageUrl # <<>>
        THEN IF parsedUrl # null
             THEN [base64Data |-> Or(l.base64Data, parsedUrl.base64Data),
                   mimeType |-> Or(l.mimeType, parsedUrl.mimeType),
                   fetch |-> FALSE, imageUrl |-> imageUrl]
             ELSE [base64Data |-> l.base64Data, mimeType |-> l.mimeType,
                   fetch |-> TRUE, imageUrl |-> imageUrl]
        ELSE [base64Data |-> l.base64Data, mimeType |-> l.mimeType,
              fetch |-> FALSE, imageUrl |-> imageUrl]

\* the end of resolveImageInputForRefinement without the /\s+/ replacement
finishResolve_KeepWhitespace(base64Data, mimeType) ==
    IF base64Data = <<>> THEN Thrown(SOURCE_UNAVAILABLE)
    ELSE Returned([base64Data |-> base64Data,
                   mimeType |-> Or(mimeType, IMAGE_PNG)])

\* the end of resolveImageInputForRefinement without the !base64Data check
finishResolve_NoCheck(base64Data, mimeType) ==
    Returned([base64Data |-> StripWhitespace(base64Data),
              mimeType |-> Or(mimeType, IMAGE_PNG)])

\* ... its end: the check, the white space stripped, the default mime type
finishResolve(base64Data, mimeType) ==
    IF base64Data = <<>> THEN Thrown(SOURCE_UNAVAILABLE)
    ELSE Returned([base64Data |-> StripWhitespace(base64Data),
                   mimeType |-> Or(mimeType, IMAGE_PNG)])

\* the console.warn of resolveImageInputForRefinement
WarningsFor(resolution) ==
    IF resolution.ok /\ resolution.value.mimeType \notin SUPPORTED_INPUT_IMAGE_MIME_TYPES
    THEN <<resolution.value.mimeType>>
    ELSE <<>>

\* reader.readAsDataURL(blob): the data URL of the blob's type and bytes
readAsDataURL(blob) ==
    <<"data:">> \o Or(blob.type, <<"application/octet-stream">>) \o <<";base64,">>
        \o Base64Encode(blob.bytes)

\* blobToBase64, reader.onload
blobToBase64(blob) ==
    LET parsedBlob == geminiParseDataUrl(readAsDataURL(blob))
    IN  IF parsedBlob = null \/ parsedBlob.base64Data = <<>>
        THEN Thrown(BLOB_NOT_CONVERTED)
        ELSE Returned(parsedBlob.base64Data)

FetchFailedMessage(status) == <<"Failed to fetch source image (", ToString(status), ").">>

IsOk(status) == status \in 200..299

\* fetchImageAsBase64 that does not look at response.ok
fetchImageAsBase64_NoStatusCheck(resp) ==
    LET blob == [type |-> resp.type, bytes |-> resp.body]
        base64Data == blobToBase64(blob)
    IN  IF ~base64Data.ok THEN base64Data
        ELSE Returned([base64Data |-> base64Data.value,
                       mimeType |-> ToLowerCase(Or(blob.type, IMAGE_PNG))])

\* fetchImageAsBase64 that does not read blob.type
fetchImageAsBase64_NoBlobType(resp) ==
    LET blob == [type |-> resp.type, bytes |-> resp.body]
        base64Data == blobToBase64(blob)
    IN  IF ~IsOk(resp.status) THEN Thrown(FetchFailedMessage(resp.status))
        ELSE IF ~base64Data.ok THEN base64Data
        ELSE Returned([base64Data |-> base64Data.value,
                       mimeType |-> IMAGE_PNG])

\* fetchImageAsBase64 once fetch has resolved with resp
fetchImageAsBase64(resp) ==
    LET blob == [type |-> resp.type, bytes |-> resp.body]
        base64Data == blobToBase64(blob)
    IN  IF ~IsOk(resp.status) THEN Thrown(FetchFailedMessage(resp.status))
        ELSE IF ~base64Data.ok THEN base64Data
        ELSE Returned([base64Data |-> base64Data.value,
                       mimeType |-> ToLowerCase(Or(blob.type, IMAGE_PNG))])

\* a content part of a provider response
InlinePart(data, mimeType) ==
    [hasInlineData |-> TRUE, data |-> data, mimeType |-> mimeType, text |-> undefined]
TextPart(text) ==
    [hasInlineData |-> FALSE, data |-> <<>>, mimeType |-> undefined, text |-> text]

\* extractImageFromResponse writing the data URL without the mime type
extractImageFromResponse_UrlWithoutMime(resp) ==
    IF ~resp.hasCandidates \/ Len(resp.candidates) = 0 THEN Thrown(NO_CANDIDATES)
    ELSE LET parts == resp.candidates[1]
             inline == {i \in DOMAIN parts : parts[i].hasInlineData}
             First(set) == CHOOSE i \in set : \A j \in set : i <= j
         IN  IF inline = {} THEN Thrown(NO_IMAGE_DATA)
             ELSE LET imagePart == parts[First(inline)]
                  IN  Returned([imageUrl |-> <<"data:", ";base64,">> \o imagePart.data,
                                base64Data |-> imagePart.data,
                                mimeType |-> Or(imagePart.mimeType, IMAGE_PNG)])

\* extractImageFromResponse taking the last inline part
extractImageFromResponse_LastInline(resp) ==
    IF ~resp.hasCandidates \/ Len(resp.candidates) = 0 THEN Thrown(NO_CANDIDATES)
    ELSE LET parts == resp.candidates[1]
             inline == {i \in DOMAIN parts : parts[i].hasInlineData}
             texts == {i \in DOMAIN parts : Or(parts[i].text, <<>>) # <<>>}
             First(set) == CHOOSE i \in set : \A j \in set : i <= j
         IN  IF inline = {}
             THEN IF texts # {}
                  THEN Thrown(<<"Model returned text instead of image: ">>
                                  \o parts[First(texts)].text)
                  ELSE Thrown(NO_IMAGE_DATA)
             ELSE LET imagePart == parts[CHOOSE i \in inline : \A j \in inline : i >= j]
                      base64Data == imagePart.data
                      mimeType == Or(imagePart.mimeType, IMAGE_PNG)
                  IN  Returned([imageUrl |-> <<"data:">> \o mimeType \o <<";base64,">>
                                                \o base64Data,
                                base64Data |-> base64Data,
                                mimeType |-> mimeType])

\* extractImageFromResponse without the look for a text part
extractImageFromResponse_NoText(resp) ==
    IF ~resp.hasCandidates \/ Len(resp.candidates) = 0 THEN Thrown(NO_CANDIDATES)
    ELSE LET parts == resp.candidates[1]
             inline == {i \in DOMAIN parts : parts[i].hasInlineData}
             texts == {i \in DOMAIN parts : Or(parts[i].text, <<>>) # <<>>}
             First(set) == CHOOSE i \in set : \A j \in set : i <= j
         IN  IF inline = {}
             THEN IF FALSE
                  THEN Thrown(<<"Model returned text instead of image: ">>
                                  \o parts[First(texts)].text)
                  ELSE Thrown(NO_IMAGE_DATA)
             ELSE LET imagePart == parts[First(inline)]
                      base64Data == imagePart.data
                      mimeType == Or(imagePart.mimeType, IMAGE_PNG)
                  IN  Returned([imageUrl |-> <<"data:">> \o mimeType \o <<";base64,">>
                                                \o base64Data,
                                base64Data |-> base64Data,
                                mimeType |-> mimeType])

\* extractImageFromResponse
extractImageFromResponse(resp) ==
    IF ~resp.hasCandidates \/ Len(resp.candidates) = 0 THEN Thrown(NO_CANDIDATES)
    ELSE LET parts == resp.candidates[1]
             inline == {i \in DOMAIN parts : parts[i].hasInlineData}
             texts == {i \in DOMAIN parts : Or(parts[i].text, <<>>) # <<>>}
             First(set) == CHOOSE i \in set : \A j \in set : i <= j
         IN  IF inline = {}
             THEN IF texts # {}
                  THEN Thrown(<<"Model returned text instead of image: ">>
                                  \o parts[First(texts)].text)
                  ELSE Thrown(NO_IMAGE_DATA)
             ELSE LET imagePart == parts[First(inline)]
                      base64Data == imagePart.data
                      mimeType == Or(imagePart.mimeType, IMAGE_PNG)
                  IN  Returned([imageUrl |-> <<"data:">> \o mimeType \o <<";base64,">>
                                                \o base64Data,
                                base64Data |-> base64Data,
                                mimeType |-> mimeType])

\* a catch that throws its own message whatever it caught
Rethrown_OwnMessage(message) == Thrown(REFINE_FAILED)

\* catch (error) { throw new Error(error.message || "Failed to refine ...") }
Rethrown(message) == Thrown(Or(message, REFINE_FAILED))

\* what refineGraphic is called with
ApiKeys == {undefined, <<" ">>, <<" ", "AIza-key", " ">>}
RefineUrlValues == UrlValues \cup {undefined, <<" ">>}
RefineImages ==
    [imageUrl : RefineUrlValues,
     base64Data : Base64Values \cup {undefined},
     mimeType : MimeValues \cup {undefined}]

\* what the fetch of imageUrl can settle with
Statuses == {200, 404, 500}
ContentTypes == {<<>>, <<"image/jpeg">>, <<"image/webp">>, <<"text/html">>}
ByteValues == {0, 77, 255}
Bodies == StringsUpTo(ByteValues, MaxBody)
NetworkErrors == {<<"Failed to fetch">>, <<>>}

\* what generateContent can settle with
ProviderResponses ==
    {[hasCandidates |-> FALSE, candidates |-> <<>>],
     [hasCandidates |-> TRUE, candidates |-> <<>>],
     [hasCandidates |-> TRUE, candidates |-> << <<>> >>],
     [hasCandidates |-> TRUE,
      candidates |-> << <<TextPart(<<"Here it is">>),
                          InlinePart(<<"i", "V", "B">>, <<"image/jpeg">>)>> >>],
     [hasCandidates |-> TRUE,
      candidates |-> << <<InlinePart(<<"i", "V", "B">>, undefined)>> >>],
     [hasCandidates |-> TRUE,
      candidates |-> << <<TextPart(<<"I cannot edit this image">>)>> >>],
     [hasCandidates |-> TRUE,
      candidates |-> << <<TextPart(<<"See next">>)>>,
                        <<InlinePart(<<"i", "V", "B">>, <<"image/png">>)>> >>]}
ProviderErrors == {<<"429 quota exceeded">>, <<>>}

Init ==
    /\ pc = "start"
    /\ image \in RefineImages
    /\ apiKey \in ApiKeys
    /\ loc = null /\ fetches = <<>> /\ response = null
    /\ sourceImage = null /\ warnings = <<>> /\ calls = <<>> /\ outcome = null
    /\ generation = null
    /\ value = undefined /\ parsed = null /\ norm = null /\ blobUrl = null
    /\ ServicesIdle

\* refineGraphic goes on with what resolveImageInputForRefinement settled with:
\* the generateContent call is issued, or the error is rethrown
Resolved(resolution) ==
    /\ warnings' = warnings \o WarningsFor(resolution)
    /\ IF resolution.ok
       THEN /\ sourceImage' = resolution.value
            /\ calls' = Append(calls,
                    [model |-> NANO_BANANA_MODEL,
                     inlineData |-> [data |-> resolution.value.base64Data,
                                     mimeType |-> resolution.value.mimeType]])
            /\ pc' = "generating"
            /\ UNCHANGED outcome
       ELSE /\ outcome' = Rethrown(resolution.message)
            /\ pc' = "rejected"
            /\ UNCHANGED <<sourceImage, calls>>

\* refineGraphic from its call to its first await that does not settle at once
RefineGraphic ==
    /\ pc = "start"
    /\ LET c == consultImageUrl(image)
       IN  IF ~getAiClient(apiKey).ok
           THEN /\ outcome' = getAiClient(apiKey)
                /\ pc' = "rejected"
                /\ UNCHANGED <<loc, fetches, sourceImage, warnings, calls>>
           ELSE IF c.fetch
           THEN /\ fetches' = Append(fetches, c.imageUrl)
                /\ loc' = [base64Data |-> c.base64Data, mimeType |-> c.mimeType]
                /\ pc' = "fetching"
                /\ UNCHANGED <<sourceImage, warnings, calls, outcome>>
           ELSE /\ loc' = [base64Data |-> c.base64Data, mimeType |-> c.mimeType]
                /\ Resolved(finishResolve(c.base64Data, c.mimeType))
                /\ UNCHANGED fetches
    /\ UNCHANGED <<image, apiKey, response, generation, parseVars, payloadVars, serviceVars>>

\* fetch(imageUrl) resolves with a response; its blob is read
FetchResolves(status, type, body) ==
    /\ pc = "fetching"
    /\ response' = [settled |-> "response", status |-> status, type |-> type,
                    body |-> body, message |-> <<>>]
    /\ LET fetched == fetchImageAsBase64(response')
       IN  IF ~fetched.ok
           THEN /\ outcome' = Rethrown(fetched.message)
                /\ pc' = "rejected"
                /\ UNCHANGED <<loc, sourceImage, warnings, calls>>
           ELSE /\ loc' = [base64Data |-> Or(loc.base64Data, fetched.value.base64Data),
                           mimeType |-> Or(loc.mimeType, fetched.value.mimeType)]
                /\ Resolved(finishResolve(loc'.base64Data, loc'.mimeType))
    /\ UNCHANGED <<image, apiKey, fetches, generation, parseVars, payloadVars, serviceVars>>

\* fetch(imageUrl) resolves with a success response whose blob the FileReader
\* cannot read (reader.onerror)
FetchResolvesUnreadable(status, type) ==
    /\ pc = "fetching"
    /\ IsOk(status)
    /\ response' = [settled |-> "unreadable", status |-> status, type |-> type,
                    body |-> <<>>, message |-> <<>>]
    /\ outcome' = Rethrown(BLOB_NOT_READ)
    /\ pc' = "rejected"
    /\ UNCHANGED <<image, apiKey, loc, fetches, sourceImage, warnings, calls, generation,
                   parseVars, payloadVars, serviceVars>>

\* fetch(imageUrl) rejects: no response, no status
FetchRejects(message) ==
    /\ pc = "fetching"
    /\ response' = [settled |-> "networkError", status |-> 0, type |-> <<>>,
                    body |-> <<>>, message |-> message]
    /\ outcome' = Rethrown(message)
    /\ pc' = "rejected"
    /\ UNCHANGED <<image, apiKey, loc, fetches, sourceImage, warnings, calls, generation,
                   parseVars, payloadVars, serviceVars>>

\* ai.models.generateContent resolves
GenerateContentResolves(resp) ==
    /\ pc = "generating"
    /\ generation' = [settled |-> "response", response |-> resp, message |-> <<>>]
    /\ LET extracted == extractImageFromResponse(resp)
       IN  IF extracted.ok
           THEN outcome' = extracted /\ pc' = "fulfilled"
           ELSE outcome' = Rethrown(extracted.message) /\ pc' = "rejected"
    /\ UNCHANGED <<image, apiKey, loc, fetches, response, sourceImage, warnings, calls,
                   parseVars, payloadVars, serviceVars>>

\* ai.models.generateContent rejects
GenerateContentRejects(message) ==
    /\ pc = "generating"
    /\ generation' = [settled |-> "error", response |-> null, message |-> message]
    /\ outcome' = Rethrown(message)
    /\ pc' = "rejected"
    /\ UNCHANGED <<image, apiKey, loc, fetches, response, sourceImage, warnings, calls,
                   parseVars, payloadVars, serviceVars>>

Next ==
    \/ RefineGraphic
    \/ \E status \in Statuses, type \in ContentTypes, body \in Bodies :
            FetchResolves(status, type, body)
    \/ \E status \in Statuses, type \in ContentTypes : FetchResolvesUnreadable(status, type)
    \/ \E message \in NetworkErrors : FetchRejects(message)
    \/ \E resp \in ProviderResponses : GenerateContentResolves(resp)
    \/ \E message \in ProviderErrors : GenerateContentRejects(message)

Spec == Init /\ [][Next]_vars

(* Claims about the resolver and refineGraphic *)

RecordBase64 == Trim(OrEmpty(image.base64Data))
RecordMime == Trim(OrEmpty(image.mimeType))
RecordUrl == Trim(OrEmpty(image.imageUrl))

\* nothing tells the mime type: no mimeType field, no mime type inside a data
\* URL of the record, no content type on the fetch response
NoMimeDetermined ==
    /\ RecordMime = <<>>
    /\ (IsDataUrl(RecordBase64) => \A d \in PartsOf[RecordBase64] : d.mime = <<>>)
    /\ (IsDataUrl(RecordUrl) => \A d \in PartsOf[RecordUrl] : d.mime = <<>>)
    /\ response # null => response.type = <<>>

\* C5: every payload resolveImageInputForRefinement returns has a non-empty
\* base64Data free of white space and a non-empty mimeType, which is image/png
\* when no mime type could be determined.
C5_ResolvedPayloadIsCanonical ==
    sourceImage # null =>
        /\ sourceImage.base64Data # <<>>
        /\ ~HasSpace(sourceImage.base64Data)
        /\ sourceImage.mimeType # <<>>
        /\ NoMimeDetermined => sourceImage.mimeType = IMAGE_PNG

\* base64 text with white space around and inside resolved to clean text and
\* the default mime type
C5_Witness ==
    /\ image.base64Data = <<" ", "k", "\n", "Q", " ">>
    /\ image.mimeType = undefined /\ image.imageUrl = undefined
    /\ sourceImage = [base64Data |-> <<"k", "Q">>, mimeType |-> IMAGE_PNG]

\* the record's only usable field is an imageUrl that is no data URL
OnlyRemoteUrl ==
    /\ RecordBase64 = <<>>
    /\ RecordMime = <<>>
    /\ RecordUrl # <<>>
    /\ ~IsDataUrl(RecordUrl)

\* C8: for a record whose only usable field is a non-data-URL imageUrl the
\* resolver issues exactly one fetch, of that URL; when the fetch succeeds
\* (a success status and a body) a payload is returned, its mimeType is the
\* response's content type (image/png when the response declares none) and
\* its base64Data decodes to the response body.
C8_RemoteUrlFetchedOnce ==
    (OnlyRemoteUrl /\ getAiClient(apiKey).ok /\ pc # "start") =>
        /\ fetches = <<RecordUrl>>
        /\ (response # null /\ response.settled = "response"
                /\ IsOk(response.status) /\ response.body # <<>>)
              => sourceImage # null
        /\ sourceImage # null =>
              /\ sourceImage.mimeType =
                    (IF response.type # <<>> THEN response.type ELSE IMAGE_PNG)
              /\ atob(sourceImage.base64Data) = [ok |-> TRUE, bytes |-> response.body]

\* https://cdn/img fetched once, answered 200 image/webp with the bytes 77 255
C8_Witness ==
    /\ OnlyRemoteUrl
    /\ fetches = << <<"https://cdn/img">> >>
    /\ response # null /\ response.status = 200
    /\ response.type = <<"image/webp">> /\ response.body = <<77, 255>>
    /\ sourceImage = [base64Data |-> <<"T", "f", "8", "=">>, mimeType |-> <<"image/webp">>]

\* C9: for a record with no base64Data and no imageUrl (absent, empty or
\* whitespace-only) the resolver fails with the source-unavailable error and
\* no fetch is issued; refineGraphic rejects with that message before any
\* provider call.
C9_NoSourceFailsWithoutFetch ==
    (RecordBase64 = <<>> /\ RecordUrl = <<>> /\ getAiClient(apiKey).ok /\ pc # "start") =>
        /\ pc = "rejected"
        /\ outcome = Thrown(SOURCE_UNAVAILABLE)
        /\ sourceImage = null
        /\ fetches = <<>>
        /\ calls = <<>>

\* {imageUrl: " ", mimeType: "image/png"} rejected as unavailable
C9_Witness ==
    /\ image.base64Data = undefined /\ image.imageUrl = <<" ">>
    /\ image.mimeType = <<"image/png">>
    /\ pc = "rejected"
    /\ outcome = Thrown(SOURCE_UNAVAILABLE)
    /\ fetches = <<>>

\* the fetch of imageUrl failed: a non-success status, or no response at all
FetchFailed ==
    /\ response # null
    /\ \/ response.settled = "networkError"
       \/ response.settled = "response" /\ ~IsOk(response.status)

\* C10: when the fetch of imageUrl returns a non-success status or fails at
\* network level, refineGraphic rejects, with a message that holds the HTTP
\* status when there is a response and with the network error's own message
\* otherwise, and no generateContent call is issued.
C10_FetchFailureRejectsBeforeProviderCall ==
    FetchFailed =>
        /\ pc = "rejected"
        /\ outcome # null /\ ~outcome.ok
        /\ response.settled = "response" =>
              \E i \in DOMAIN outcome.message :
                  outcome.message[i] = ToString(response.status)
        /\ (response.settled = "networkError" /\ response.message # <<>>) =>
              outcome.message = response.message
        /\ sourceImage = null
        /\ calls = <<>>

\* a 404 answer rejected with the status in the message, no provider call
C10_Witness ==
    /\ response # null /\ response.settled = "response" /\ response.status = 404
    /\ pc = "rejected"
    /\ outcome = Thrown(<<"Failed to fetch source image (", "404", ").">>)
    /\ calls = <<>>

\* the record's base64Data and mimeType once a data URL in base64Data is
\* unwrapped: whether each is still missing
Base64Missing == RecordBase64 = <<>>
MimeMissing ==
    /\ RecordMime = <<>>
    /\ (IsDataUrl(RecordBase64) => \A d \in PartsOf[RecordBase64] : d.mime = <<>>)
FetchNeeded ==
    /\ Base64Missing \/ MimeMissing
    /\ RecordUrl # <<>>
    /\ ~IsDataUrl(RecordUrl)

\* C22: the resolver fetches imageUrl, once, exactly when base64Data or
\* mimeType is still missing after a data URL in base64Data is unwrapped and
\* imageUrl is non-empty and no data URL; otherwise it fetches nothing, and a
\* data-URL imageUrl fills the missing fields only
C22_FetchOnlyWhenNeeded ==
    /\ Len(fetches) <= 1
    /\ (getAiClient(apiKey).ok /\ pc # "start") =>
        /\ fetches = IF FetchNeeded THEN <<RecordUrl>> ELSE <<>>
        /\ (IsDataUrl(RecordUrl) /\ sourceImage # null) =>
            /\ (~Base64Missing /\ ~IsDataUrl(RecordBase64)) =>
                   sourceImage.base64Data = StripWhitespace(RecordBase64)
            /\ (Base64Missing /\ ~MimeMissing) =>
                   /\ sourceImage.mimeType = ToLowerCase(RecordMime)
                   /\ \E d \in PartsOf[RecordUrl] :
                          sourceImage.base64Data = StripWhitespace(d.payload)

\* a mime type without base64 text beside a data-URL imageUrl: no fetch, the
\* payload taken from the URL, the record's mime type kept
C22_Witness ==
    /\ pc = "generating"
    /\ image.base64Data = undefined
    /\ RecordMime # <<>> /\ ToLowerCase(RecordMime) # IMAGE_PNG
    /\ image.imageUrl = <<"data:", "image/png", ";base64,", "X", "Y", "Z">>
    /\ fetches = <<>>
    /\ sourceImage.base64Data = <<"X", "Y", "Z">>
    /\ sourceImage.mimeType = ToLowerCase(RecordMime)

\* a record with both fields beside a remote imageUrl: nothing is fetched
C22_WitnessBothPresent ==
    /\ pc = "generating"
    /\ ~Base64Missing /\ ~MimeMissing
    /\ image.imageUrl = <<"https://cdn/img">>
    /\ fetches = <<>>

\* C23: whenever the resolver fetched imageUrl, the mime type it returns is
\* the content type the response declared (image/png when it declared none),
\* also for a record that carries its own mimeType and no base64Data
C23_FetchedMimeIsContentType ==
    (fetches # <<>> /\ sourceImage # null) =>
        sourceImage.mimeType =
            IF response.type # <<>> THEN ToLowerCase(response.type) ELSE IMAGE_PNG

\* the key refineGraphic was given is missing or all white space
BlankApiKey == apiKey = undefined \/ \A i \in DOMAIN apiKey : IsSpace(apiKey[i])

\* the resolver ended without a payload
ResolutionFailed == pc = "rejected" /\ sourceImage = null

\* C27: refineGraphic checks the credential, then resolves the source image,
\* then calls the provider, and a failed stage prevents the later ones: a
\* blank key fails with the API-key-required error with nothing fetched and
\* nothing sent to the provider, nothing is sent while the source image is
\* being fetched or after its resolution failed, and the one provider call
\* carries the resolved image
C27_StagesInOrder ==
    /\ (BlankApiKey /\ pc # "start") =>
        /\ pc = "rejected"
        /\ outcome = Thrown(API_KEY_REQUIRED)
        /\ fetches = <<>> /\ response = null
        /\ sourceImage = null
        /\ calls = <<>>
    /\ fetches # <<>> => ~BlankApiKey
    /\ (pc = "fetching" \/ ResolutionFailed) => calls = <<>>
    /\ calls # <<>> =>
        /\ ~BlankApiKey
        /\ sourceImage # null
        /\ Len(calls) = 1
        /\ calls[1].inlineData = [mimeType |-> sourceImage.mimeType,
                                  data |-> sourceImage.base64Data]

\* a blank key beside a record whose imageUrl would have to be fetched
C27_Witness ==
    /\ pc = "rejected"
    /\ BlankApiKey
    /\ FetchNeeded
    /\ outcome = Thrown(API_KEY_REQUIRED)
    /\ fetches = <<>> /\ calls = <<>>

\* a usable key, source resolution failed after the fetch: no provider call
C27_WitnessResolution ==
    /\ ~BlankApiKey
    /\ fetches # <<>>
    /\ ResolutionFailed
    /\ calls = <<>>

\* all three stages ran
C27_WitnessProvider ==
    /\ fetches # <<>> /\ sourceImage # null /\ Len(calls) = 1
    /\ pc = "fulfilled"

(* The normalizer and the resolver on one record *)

\* resolveImageInputForRefinement as far as it goes without a fetch: what it
\* returns or throws, or null where it would await fetchImageAsBase64
resolveWithoutFetch(currentImage) ==
    LET c == consultImageUrl(currentImage)
    IN  IF c.fetch THEN null ELSE finishResolve(c.base64Data, c.mimeType)

\* the records that carry canonical fields only
InlineImages ==
    UNION {RecordsWith(present) : present \in SUBSET {"imageUrl", "base64Data", "mimeType"}}

InitInline ==
    /\ pc = "inline"
    /\ image \in InlineImages
    /\ apiKey = undefined /\ loc = null /\ fetches = <<>> /\ response = null
    /\ sourceImage = null /\ warnings = <<>> /\ calls = <<>> /\ outcome = null
    /\ generation = null
    /\ value = undefined /\ parsed = null /\ norm = null /\ blobUrl = null
    /\ ServicesIdle

\* the resolver returns or throws
ResolvedWithoutFetch(resolution) ==
    /\ warnings' = warnings \o WarningsFor(resolution)
    /\ IF resolution.ok
       THEN sourceImage' = resolution.value /\ UNCHANGED outcome
       ELSE outcome' = resolution /\ UNCHANGED sourceImage

\* getImagePayload(image) and resolveImageInputForRefinement(image), the
\* latter up to its return or to the fetch it issues
NormalizeAndResolve ==
    /\ pc = "inline"
    /\ norm' = [rawBase64 |-> rawBase64(image),
                rawMimeType |-> rawMimeType(image),
                result |-> getImagePayload(image)]
    /\ LET c == consultImageUrl(image)
       IN  /\ loc' = [base64Data |-> c.base64Data, mimeType |-> c.mimeType]
           /\ IF c.fetch
              THEN /\ fetches' = Append(fetches, c.imageUrl)
                   /\ UNCHANGED <<sourceImage, warnings, outcome>>
              ELSE /\ ResolvedWithoutFetch(resolveWithoutFetch(image))
                   /\ UNCHANGED fetches
    /\ pc' = "inlineDone"
    /\ UNCHANGED <<image, apiKey, response, calls, generation, blobUrl, parseVars,
                   serviceVars>>

NextInline == NormalizeAndResolve

SpecInline == InitInline /\ [][NextInline]_vars

\* C28 as stated: where getImagePayload returns a payload and the resolver
\* returns without a fetch, the resolver's mimeType is the payload's and its
\* base64Data is the payload's without white space
C28_NormalizerAndResolverAgree ==
    (pc = "inlineDone" /\ norm.result # null /\ fetches = <<>> /\ sourceImage # null) =>
        /\ sourceImage.mimeType = norm.result.mimeType
        /\ sourceImage.base64Data = WithoutSpace(norm.result.base64Data)

\* the resolver takes from a data-URL imageUrl both fields or none
UrlFillsBothOrNone ==
    \/ ~IsDataUrl(RecordUrl)
    \/ ~Base64Missing /\ ~MimeMissing
    \/ Base64Missing /\ MimeMissing

\* C28, amended: the normalizer and the resolver agree, as C28 states, on the
\* records whose imageUrl is no data URL or gives the resolver both
\* base64Data and mimeType or neither of them
C28_AgreeUnlessUrlFillsOneField ==
    (pc = "inlineDone" /\ norm.result # null /\ fetches = <<>> /\ sourceImage # null
        /\ UrlFillsBothOrNone) =>
        /\ sourceImage.mimeType = norm.result.mimeType
        /\ sourceImage.base64Data = WithoutSpace(norm.result.base64Data)

\* base64 text with white space in it beside an upper-case mime type and a
\* data-URL imageUrl: both give image/webp, the resolver without white space
C28_Witness ==
    /\ pc = "inlineDone"
    /\ image.base64Data = <<" ", "k", "\n", "Q", " ">>
    /\ image.mimeType = <<" ", "IMAGE/WEBP", " ">>
    /\ image.imageUrl = <<"data:", "image/png", ";base64,", "X", "Y", "Z">>
    /\ norm.result = [base64Data |-> <<"k", "\n", "Q">>, mimeType |-> <<"image/webp">>]
    /\ sourceImage = [base64Data |-> <<"k", "Q">>, mimeType |-> <<"image/webp">>]
    /\ fetches = <<>>

\* a record with a data-URL imageUrl only: both take payload and mime type
\* from it
C28_WitnessUrlOnly ==
    /\ pc = "inlineDone"
    /\ Base64Missing /\ MimeMissing /\ IsDataUrl(RecordUrl)
    /\ norm.result # null /\ sourceImage # null
    /\ sourceImage.mimeType = <<"image/png">>

-----------------------------------------------------------------------------
(* generateGraphic *)

GENERATE_FAILED == <<"Failed to generate image. Please try again.">>

\* the catch of generateGraphic
GenerateRethrown(message) == Thrown(Or(message, GENERATE_FAILED))

InitGenerate ==
    /\ pc = "generate"
    /\ apiKey \in ApiKeys
    /\ image = <<>>
    /\ loc = null /\ fetches = <<>> /\ response = null
    /\ sourceImage = null /\ warnings = <<>> /\ calls = <<>> /\ outcome = null
    /\ generation = null
    /\ value = undefined /\ parsed = null /\ norm = null /\ blobUrl = null
    /\ ServicesIdle

\* generateGraphic from its call to the await of generateContent
GenerateGraphic ==
    /\ pc = "generate"
    /\ IF ~getAiClient(apiKey).ok
       THEN /\ outcome' = getAiClient(apiKey)
            /\ pc' = "generateRejected"
            /\ UNCHANGED calls
       ELSE /\ calls' = Append(calls, [model |-> NANO_BANANA_MODEL])
            /\ pc' = "generateCalling"
            /\ UNCHANGED outcome
    /\ UNCHANGED <<image, apiKey, loc, fetches, response, sourceImage, warnings, generation,
                   parseVars, payloadVars, serviceVars>>

\* ai.models.generateContent resolves
GenerateGraphicResolves(resp) ==
    /\ pc = "generateCalling"
    /\ generation' = [settled |-> "response", response |-> resp, message |-> <<>>]
    /\ LET extracted == extractImageFromResponse(resp)
       IN  IF extracted.ok
           THEN outcome' = extracted /\ pc' = "generateFulfilled"
           ELSE outcome' = GenerateRethrown(extracted.message) /\ pc' = "generateRejected"
    /\ UNCHANGED <<image, apiKey, loc, fetches, response, sourceImage, warnings, calls,
                   parseVars, payloadVars, serviceVars>>

\* ai.models.generateContent rejects
GenerateGraphicRejects(message) ==
    /\ pc = "generateCalling"
    /\ generation' = [settled |-> "error", response |-> null, message |-> message]
    /\ outcome' = GenerateRethrown(message)
    /\ pc' = "generateRejected"
    /\ UNCHANGED <<image, apiKey, loc, fetches, response, sourceImage, warnings, calls,
                   parseVars, payloadVars, serviceVars>>

NextGenerate ==
    \/ GenerateGraphic
    \/ \E resp \in ProviderResponses : GenerateGraphicResolves(resp)
    \/ \E message \in ProviderErrors : GenerateGraphicRejects(message)

-----------------------------------------------------------------------------
(* The OpenAI image service (services/openaiService.ts) *)

MODEL_ID == "gpt-image-1.5"
OPENAI_ENDPOINT == "https://api.openai.com/v1/images/generations"
OPENAI_KEY_REQUIRED == <<"OpenAI API key is required for gpt-image-1.5">>
OPENAI_FAILED == <<"OpenAI image generation failed: ">>
OPENAI_NO_IMAGE == <<"OpenAI image generation returned no image data">>

\* aspectToSize with the portrait and landscape sizes of 4:3 and 3:4 exchanged
aspectToSize_Exchanged(aspect) ==
    CASE aspect = "16:9" -> "1792x1024"
      [] aspect = "9:16" -> "1024x1792"
      [] aspect = "4:3" -> "1024x1392"
      [] aspect = "3:4" -> "1392x1024"
      [] OTHER -> "1024x1024"

\* aspectToSize: the switch over the aspect ratio, '1:1' and default together
aspectToSize(aspect) ==
    CASE aspect = "16:9" -> "1792x1024"
      [] aspect = "9:16" -> "1024x1792"
      [] aspect = "4:3" -> "1392x1024"
      [] aspect = "3:4" -> "1024x1392"
      [] aspect = "1:1" -> "1024x1024"
      [] OTHER -> "1024x1024"

\* systemPrompt?.trim() ? `${systemPrompt.trim()}\n\n${prompt}` : prompt
fullPromptOf(prompt, systemPrompt) ==
    IF Trim(OrEmpty(systemPrompt)) # <<>>
    THEN Trim(systemPrompt) \o <<"\n", "\n">> \o prompt
    ELSE prompt

\* the request generateOpenAIImage sends
openaiRequest(prompt, aspectRatio, key, systemPrompt) ==
    [url |-> OPENAI_ENDPOINT,
     method |-> "POST",
     authorization |-> <<"Bearer ">> \o Trim(key),
     body |-> [model |-> MODEL_ID,
               prompt |-> fullPromptOf(prompt, systemPrompt),
               size |-> aspectToSize(aspectRatio),
               response_format |-> "b64_json"]]

\* !apiKey?.trim()
openaiKeyMissing_EmptyOnly(key) == OrEmpty(key) = <<>>

openaiKeyMissing(key) == Trim(OrEmpty(key)) = <<>>

\* response.json(): the body is no JSON (the SyntaxError it rejects with), is
\* null, is an object without data, or an object whose data is a list of
\* entries each with or without a b64_json string
NotJson(error) ==
    [valid |-> FALSE, error |-> error, isNull |-> FALSE, hasData |-> FALSE, data |-> <<>>]
JsonNull ==
    [valid |-> TRUE, error |-> <<>>, isNull |-> TRUE, hasData |-> FALSE, data |-> <<>>]
JsonWithoutData ==
    [valid |-> TRUE, error |-> <<>>, isNull |-> FALSE, hasData |-> FALSE, data |-> <<>>]
JsonObject(data) ==
    [valid |-> TRUE, error |-> <<>>, isNull |-> FALSE, hasData |-> TRUE, data |-> data]

\* json?.data?.[0]?.b64_json
firstB64(json) ==
    IF json.isNull \/ ~json.hasData \/ Len(json.data) = 0 THEN undefined
    ELSE json.data[1].b64_json

\* generateOpenAIImage after the response: what it returns or throws
openaiResult_AnyStatus(resp) ==
    IF ~resp.json.valid THEN Thrown(resp.json.error)
    ELSE IF Or(firstB64(resp.json), <<>>) = <<>> THEN Thrown(OPENAI_NO_IMAGE)
    ELSE Returned([imageUrl |-> <<"data:", "image/png", ";base64,">> \o firstB64(resp.json),
                   base64Data |-> firstB64(resp.json),
                   mimeType |-> IMAGE_PNG])

openaiResult(resp) ==
    IF ~IsOk(resp.status) THEN Thrown(OPENAI_FAILED \o resp.text)
    ELSE IF ~resp.json.valid THEN Thrown(resp.json.error)
    ELSE IF Or(firstB64(resp.json), <<>>) = <<>> THEN Thrown(OPENAI_NO_IMAGE)
    ELSE Returned([imageUrl |-> <<"data:", "image/png", ";base64,">> \o firstB64(resp.json),
                   base64Data |-> firstB64(resp.json),
                   mimeType |-> IMAGE_PNG])

\* what generateOpenAIImage is called with
OpenAIKeys ==
    {undefined, <<>>, <<" ">>, <<" ", "\n">>, <<"sk-key">>, <<" ", "sk-key", "\n">>}
AspectRatios == {"1:1", "16:9", "9:16", "4:3", "3:4", "", "unknown", "21:9", "16:9 "}
SystemPrompts == {undefined, <<" ">>, <<" ", "Flat style.", " ">>}
Prompts == {<<"a", " ", "logo">>}

\* what the request can settle with
OpenAIStatuses == {200, 201, 401, 500}
OpenAIBodies ==
    {[text |-> <<"{\"data\":[{\"b64_json\":\"", "i", "V", "B", "\"}]}">>,
      json |-> JsonObject(<<[b64_json |-> <<"i", "V", "B">>]>>)],
     [text |-> <<"{\"data\":[{\"b64_json\":\"", "i", "V", "B", "\"},{\"b64_json\":\"",
                 "Q", "k", "\"}]}">>,
      json |-> JsonObject(<<[b64_json |-> <<"i", "V", "B">>],
                            [b64_json |-> <<"Q", "k">>]>>)],
     [text |-> <<"{\"data\":[{\"url\":\"https://cdn/img\"},{\"b64_json\":\"",
                 "Q", "k", "\"}]}">>,
      json |-> JsonObject(<<[b64_json |-> undefined], [b64_json |-> <<"Q", "k">>]>>)],
     [text |-> <<"{\"data\":[{\"b64_json\":\"\"}]}">>,
      json |-> JsonObject(<<[b64_json |-> <<>>]>>)],
     [text |-> <<"{\"data\":[]}">>, json |-> JsonObject(<<>>)],
     [text |-> <<"{\"error\":{\"message\":\"Incorrect API key provided\"}}">>,
      json |-> JsonWithoutData],
     [text |-> <<"null">>, json |-> JsonNull],
     [text |-> <<"<html>", "Bad Gateway", "</html>">>,
      json |-> NotJson(<<"Unexpected token '<'">>)],
     [text |-> <<>>, json |-> NotJson(<<"Unexpected end of JSON input">>)]}

InitOpenAI ==
    /\ pc = "openai"
    /\ request \in [prompt : Prompts, aspectRatio : AspectRatios,
                    apiKey : OpenAIKeys, systemPrompt : SystemPrompts]
    /\ requests = <<>> /\ httpResponse = null /\ generated = null
    /\ ImageSourceIdle
    /\ ExtractIdle /\ CatalogIdle /\ VoteIdle /\ UploadIdle

\* generateOpenAIImage from its call to the await of fetch
GenerateOpenAIImage ==
    /\ pc = "openai"
    /\ IF openaiKeyMissing(request.apiKey)
       THEN /\ generated' = Thrown(OPENAI_KEY_REQUIRED)
            /\ pc' = "openaiRejected"
            /\ UNCHANGED requests
       ELSE /\ requests' = Append(requests,
                    openaiRequest(request.prompt, request.aspectRatio,
                                  request.apiKey, request.systemPrompt))
            /\ pc' = "openaiFetching"
            /\ UNCHANGED generated
    /\ UNCHANGED <<request, httpResponse, imageSourceVars,
                   extractVars, catalogVars, voteVars, uploadVars>>

\* the request resolves with a response; its body is read as text or as JSON
OpenAIResolves(status, body) ==
    /\ pc = "openaiFetching"
    /\ httpResponse' = [settled |-> "response", status |-> status, text |-> body.text,
                        json |-> body.json]
    /\ generated' = openaiResult(httpResponse')
    /\ pc' = IF generated'.ok THEN "openaiFulfilled" ELSE "openaiRejected"
    /\ UNCHANGED <<request, requests, imageSourceVars,
                   extractVars, catalogVars, voteVars, uploadVars>>

\* the request rejects: the error is the caller's
OpenAIRejects(message) ==
    /\ pc = "openaiFetching"
    /\ httpResponse' = [settled |-> "networkError", status |-> 0, text |-> <<>>,
                        json |-> NotJson(message)]
    /\ generated' = Thrown(message)
    /\ pc' = "openaiRejected"
    /\ UNCHANGED <<request, requests, imageSourceVars,
                   extractVars, catalogVars, voteVars, uploadVars>>

NextOpenAI ==
    \/ GenerateOpenAIImage
    \/ \E status \in OpenAIStatuses, body \in OpenAIBodies :
            OpenAIResolves(status, body)
    \/ \E message \in NetworkErrors : OpenAIRejects(message)

SpecOpenAI == InitOpenAI /\ [][NextOpenAI]_vars

(* Claims about the OpenAI image service *)

SizeTable ==
    ("16:9" :> "1792x1024") @@ ("9:16" :> "1024x1792") @@ ("4:3" :> "1392x1024")
        @@ ("3:4" :> "1024x1392") @@ ("1:1" :> "1024x1024")
SizeLiterals == {"1792x1024", "1024x1792", "1392x1024", "1024x1392", "1024x1024"}

\* C11: the size sent for an aspect ratio is the one of the table (16:9 ->
\* 1792x1024, 9:16 -> 1024x1792, 4:3 -> 1392x1024, 3:4 -> 1024x1392, 1:1 ->
\* 1024x1024), 1024x1024 for every other ratio, the empty one and 'unknown'
\* included, and always one of the literal sizes
C11_AspectMapsToItsSize ==
    /\ pc \in {"openaiFetching", "openaiFulfilled"} => Len(requests) = 1
    /\ \A i \in DOMAIN requests :
        /\ requests[i].body.size \in SizeLiterals
        /\ requests[i].body.size =
               IF request.aspectRatio \in DOMAIN SizeTable
               THEN SizeTable[request.aspectRatio]
               ELSE "1024x1024"

C11_Witness ==
    /\ pc = "openaiFetching"
    /\ request.aspectRatio = "unknown"
    /\ requests[1].body.size = "1024x1024"

IsBlankKey(k) == k = undefined \/ \A i \in DOMAIN k : IsSpace(k[i])

\* the bearer of request r is key without its leading and trailing white space
CarriesTrimmedKey(r, key) ==
    LET k == Tail(r.authorization)
    IN  /\ Head(r.authorization) = "Bearer "
        /\ k # <<>> /\ ~IsSpace(Head(k)) /\ ~IsSpace(k[Len(k)])
        /\ \E i \in DOMAIN key :
            /\ SubSeq(key, i, i + Len(k) - 1) = k
            /\ \A j \in DOMAIN key : (j < i \/ j >= i + Len(k)) => IsSpace(key[j])

\* Both adapters under one specification: a call of refineGraphic or a call
\* of generateOpenAIImage
InitAdapters == Init \/ InitOpenAI
NextAdapters == Next \/ NextOpenAI
SpecAdapters == InitAdapters /\ [][NextAdapters]_vars

\* C12: with a missing, empty or white-space key generateOpenAIImage throws
\* the key-required error and sends no request; a request that is sent carries
\* the caller's trimmed key as bearer; with a blank key the Gemini client is
\* refused too, before any fetch and any provider call
C12_BlankKeyFailsBeforeAnyRequest ==
    /\ pc \in {"openaiFetching", "openaiFulfilled", "openaiRejected"} =>
        /\ IsBlankKey(request.apiKey) =>
               generated = Thrown(OPENAI_KEY_REQUIRED) /\ requests = <<>>
        /\ Len(requests) <= 1
        /\ \A i \in DOMAIN requests : CarriesTrimmedKey(requests[i], request.apiKey)
    /\ (pc \in {"fetching", "generating", "fulfilled", "rejected"} /\ IsBlankKey(apiKey)) =>
        outcome = Thrown(API_KEY_REQUIRED) /\ calls = <<>> /\ fetches = <<>>

C12_Witness ==
    /\ pc = "openaiRejected"
    /\ request.apiKey = <<" ", "\n">>
    /\ generated = Thrown(OPENAI_KEY_REQUIRED)
    /\ requests = <<>>

C12_WitnessBearer ==
    /\ pc = "openaiFetching"
    /\ request.apiKey = <<" ", "sk-key", "\n">>
    /\ requests[1].authorization = <<"Bearer ", "sk-key">>

C12_WitnessGemini ==
    /\ pc = "rejected"
    /\ apiKey = <<" ">>
    /\ outcome = Thrown(API_KEY_REQUIRED)

EndsWith(s, t) == Len(t) <= Len(s) /\ SubSeq(s, Len(s) - Len(t) + 1, Len(s)) = t

\* the JSON body has a non-empty data[0].b64_json
HasFirstImage(json) ==
    /\ json.valid /\ ~json.isNull /\ json.hasData
    /\ Len(json.data) >= 1
    /\ json.data[1].b64_json # undefined /\ json.data[1].b64_json # <<>>

\* C13: on a non-2xx response the error message ends with the body text as
\* received; on a 2xx response whose data[0].b64_json is a non-empty string the
\* image returned has it as base64Data, image/png as mimeType and the data URL
\* of both as imageUrl; on a 2xx JSON response without it the no-image-data
\* error is thrown
C13_ResponseDecidesTheResult ==
    (pc \in {"openaiFulfilled", "openaiRejected"} /\ requests # <<>>
        /\ httpResponse.settled = "response") =>
        LET json == httpResponse.json
        IN  /\ ~(httpResponse.status \in 200..299) =>
                /\ ~generated.ok
                /\ EndsWith(generated.message, httpResponse.text)
                /\ Len(generated.message) = Len(httpResponse.text) + 1
            /\ (httpResponse.status \in 200..299 /\ HasFirstImage(json)) =>
                generated = Returned(
                    [imageUrl |-> <<"data:", "image/png", ";base64,">> \o json.data[1].b64_json,
                     base64Data |-> json.data[1].b64_json,
                     mimeType |-> <<"image/png">>])
            /\ (httpResponse.status \in 200..299 /\ json.valid /\ ~HasFirstImage(json)) =>
                generated = Thrown(OPENAI_NO_IMAGE)

C13_Witness ==
    /\ pc = "openaiRejected"
    /\ requests # <<>>
    /\ httpResponse.status = 401
    /\ httpResponse.text = <<"{\"error\":{\"message\":\"Incorrect API key provided\"}}">>
    /\ generated.message = OPENAI_FAILED \o httpResponse.text

C13_WitnessImage ==
    /\ pc = "openaiFulfilled"
    /\ httpResponse.status = 201
    /\ generated.value.base64Data = <<"i", "V", "B">>

(* The three image operations together *)

InitImageOperations == Init \/ InitGenerate \/ InitOpenAI
NextImageOperations == Next \/ NextGenerate \/ NextOpenAI
SpecImageOperations == InitImageOperations /\ [][NextImageOperations]_vars

Rejected == pc \in {"rejected", "generateRejected", "openaiRejected"}
Fulfilled == pc \in {"fulfilled", "generateFulfilled", "openaiFulfilled"}

\* the message of the failure that ended the invocation, where the failure
\* has one: of the rejected fetch or provider call, or of the response
\* refused
FailureMessage ==
    IF generation # null
    THEN IF generation.settled = "error" THEN generation.message
         ELSE extractImageFromResponse(generation.response).message
    ELSE IF response # null
    THEN CASE response.settled = "networkError" -> response.message
           [] response.settled = "unreadable" -> BLOB_NOT_READ
           [] ~IsOk(response.status) ->
                <<"Failed to fetch source image (", ToString(response.status), ").">>
           [] OTHER -> BLOB_NOT_CONVERTED
    ELSE IF httpResponse # null
    THEN IF httpResponse.settled = "networkError" THEN httpResponse.json.error
         ELSE IF ~IsOk(httpResponse.status)
         THEN <<"OpenAI image generation failed: ">> \o httpResponse.text
         ELSE IF ~httpResponse.json.valid THEN httpResponse.json.error
         ELSE OPENAI_NO_IMAGE
    ELSE IF pc = "openaiRejected" THEN OPENAI_KEY_REQUIRED
    ELSE IF BlankApiKey THEN API_KEY_REQUIRED
    ELSE SOURCE_UNAVAILABLE

\* C24: no operation retries: an invocation issues at most one HTTP request
\* to OpenAI, at most one fetch of the source image and at most one provider
\* call, each settlement is the only one of its kind, a failure ends the
\* invocation with an error whose message is the failure's message (the own
\* message of refineGraphic or generateGraphic when the failure has none), and
\* nothing is issued after the failure
C24_NoRetryAndTheFailureIsSurfaced ==
    /\ Len(requests) <= 1 /\ Len(fetches) <= 1 /\ Len(calls) <= 1
    /\ pc \in {"openai", "openaiFetching", "openaiFulfilled", "openaiRejected"} =>
            fetches = <<>> /\ calls = <<>>
    /\ pc \in {"generate", "generateCalling", "generateFulfilled", "generateRejected"} =>
            fetches = <<>> /\ requests = <<>>
    /\ Rejected =>
        LET thrown == IF pc = "openaiRejected" THEN generated ELSE outcome
            own == IF pc = "rejected" THEN REFINE_FAILED ELSE GENERATE_FAILED
        IN  /\ ~thrown.ok
            /\ thrown.message =
                    IF FailureMessage # <<>> \/ pc = "openaiRejected" THEN FailureMessage
                    ELSE own
            /\ httpResponse # null => Len(requests) = 1
            /\ response # null => Len(fetches) = 1
            /\ generation # null => Len(calls) = 1
            /\ (response # null /\ generation # null) => sourceImage # null
    /\ Fulfilled =>
        LET returned == IF pc = "openaiFulfilled" THEN generated ELSE outcome
        IN  returned.ok

\* refineGraphic fetched once, called the provider once, and rejected with
\* the provider's message
C24_Witness ==
    /\ pc = "rejected"
    /\ Len(fetches) = 1 /\ Len(calls) = 1
    /\ generation # null /\ generation.settled = "error"
    /\ generation.message = <<"429 quota exceeded">>
    /\ outcome = Thrown(<<"429 quota exceeded">>)

\* generateGraphic rejected with the explanation the provider gave as text
C24_WitnessGenerate ==
    /\ pc = "generateRejected"
    /\ Len(calls) = 1
    /\ generation # null /\ generation.settled = "response"
    /\ outcome = Thrown(<<"Model returned text instead of image: ",
                           "I cannot edit this image">>)

\* generateOpenAIImage rejected with the body of the 401 answer
C24_WitnessOpenAI ==
    /\ pc = "openaiRejected"
    /\ Len(requests) = 1
    /\ httpResponse # null /\ httpResponse.settled = "response"
    /\ httpResponse.status = 401
    /\ generated = Thrown(<<"OpenAI image generation failed: ">> \o httpResponse.text)

-----------------------------------------------------------------------------
(* extractImageFromResponse over provider responses of any shape *)

\* the content parts a candidate can hold: images with and without a mime
\* type, texts, a part with an empty text
PartPool ==
    {InlinePart(<<"i", "V", "B">>, <<"image/jpeg">>),
     InlinePart(<<"Q", "k">>, undefined),
     TextPart(<<"Here it is">>),
     TextPart(<<"I cannot draw this">>),
     TextPart(<<>>)}
PartLists == StringsUpTo(PartPool, MaxParts)
CandidateLists ==
    {<<>>} \cup {<<a>> : a \in PartLists} \cup {<<a, b>> : a, b \in PartLists}
ExtractResponses ==
    {[hasCandidates |-> FALSE, candidates |-> <<>>]}
        \cup {[hasCandidates |-> TRUE, candidates |-> c] : c \in CandidateLists}

InitExtract ==
    /\ pc = "extract"
    /\ providerResponse \in ExtractResponses
    /\ extraction = null
    /\ ImageSourceIdle
    /\ OpenAIIdle /\ CatalogIdle /\ VoteIdle /\ UploadIdle

ExtractImageFromResponse ==
    /\ pc = "extract"
    /\ extraction' = extractImageFromResponse(providerResponse)
    /\ pc' = "extracted"
    /\ UNCHANGED <<providerResponse, imageSourceVars,
                   openaiVars, catalogVars, voteVars, uploadVars>>

NextExtract == ExtractImageFromResponse

SpecExtract == InitExtract /\ [][NextExtract]_vars

(* The images the providers return, given to getImagePayload and to          *)
(* parseDataUrl                                                              *)

\* inline parts as a provider may also send them: an upper-case mime type,
\* base64 text closed by a line feed, no data
UnusualParts ==
    {InlinePart(<<"Q", "k">>, <<"IMAGE/WEBP">>),
     InlinePart(<<"Q", "k", "\n">>, <<"image/png">>),
     InlinePart(<<>>, <<"image/png">>)}
RoundTripResponses ==
    {[hasCandidates |-> TRUE, candidates |-> <<parts>>] :
        parts \in StringsUpTo(PartPool \cup UnusualParts, MaxParts)}

InitRoundTrip ==
    \/ InitOpenAI
    \/ /\ pc = "extract"
       /\ providerResponse \in RoundTripResponses
       /\ extraction = null
       /\ ImageSourceIdle
       /\ OpenAIIdle /\ CatalogIdle /\ VoteIdle /\ UploadIdle

\* the GeneratedImage as the ImageSource record it is read back as
AsImageSource(generatedImage) ==
    [f \in Fields |-> IF f \in {"imageUrl", "base64Data", "mimeType"}
                      THEN generatedImage[f] ELSE undefined]

\* the image returned is given to getImagePayload, its imageUrl to parseDataUrl
RoundTrip ==
    /\ \/ pc = "openaiFulfilled" /\ image' = AsImageSource(generated.value)
       \/ pc = "extracted" /\ extraction.ok /\ image' = AsImageSource(extraction.value)
    /\ norm' = [rawBase64 |-> rawBase64(image'),
                rawMimeType |-> rawMimeType(image'),
                result |-> getImagePayload(image')]
    /\ parsed' = parseDataUrl(image'.imageUrl)
    /\ pc' = "roundTripped"
    /\ UNCHANGED <<value, blobUrl, refineVars, serviceVars>>

NextRoundTrip == NextOpenAI \/ NextExtract \/ RoundTrip

SpecRoundTrip == InitRoundTrip /\ [][NextRoundTrip]_vars

OwnPair == [base64Data |-> image.base64Data, mimeType |-> image.mimeType]

PlainBase64(s) == s # <<>> /\ WithoutSpace(s) = s
LowerCased(s) == ToLowerCase(s) = s

C29_WitnessOpenAI ==
    /\ pc = "roundTripped"
    /\ generated # null /\ generated.ok
    /\ image.base64Data = <<"i", "V", "B">>
    /\ norm.result = OwnPair /\ parsed = OwnPair

(* Claims about extractImageFromResponse *)

IsInlinePart(part) == part.hasInlineData
IsTextPart(part) ==
    ~part.hasInlineData /\ part.text # undefined /\ part.text # <<>>

\* the parts of the candidates cs, in candidate order then part order
RECURSIVE AllParts(_)
AllParts(cs) == IF cs = <<>> THEN <<>> ELSE Head(cs) \o AllParts(Tail(cs))

FirstCandidate(resp) ==
    IF resp.hasCandidates /\ resp.candidates # <<>> THEN resp.candidates[1] ELSE <<>>

HasPart(parts, Is(_)) == \E i \in DOMAIN parts : Is(parts[i])
FirstPart(parts, Is(_)) ==
    parts[CHOOSE i \in DOMAIN parts :
              Is(parts[i]) /\ \A j \in 1..(i - 1) : ~Is(parts[j])]

\* the image of an inline part: its data, its mime type or image/png, the
\* data URL of both
ImageOf(part) ==
    LET mimeType == IF part.mimeType = undefined THEN <<"image/png">> ELSE part.mimeType
    IN  [imageUrl |-> <<"data:">> \o mimeType \o <<";base64,">> \o part.data,
         base64Data |-> part.data,
         mimeType |-> mimeType]

ProtocolViolations == {Thrown(NO_CANDIDATES), Thrown(NO_IMAGE_DATA)}

\* C14 as stated: when some candidate of the response holds an inline part, the
\* image of the first inline part, in candidate order then part order, is
\* returned
C14_FirstInlinePartOfAnyCandidate ==
    pc = "extracted" =>
        LET parts == AllParts(providerResponse.candidates)
        IN  HasPart(parts, IsInlinePart) =>
                extraction = Returned(ImageOf(FirstPart(parts, IsInlinePart)))

\* C14: when the first candidate holds an inline part, the image of its first
\* inline part is returned, text parts before it or not; when it holds none,
\* no image is returned, whatever the later candidates hold
C14_FirstInlinePartOfFirstCandidate ==
    pc = "extracted" =>
        LET parts == FirstCandidate(providerResponse)
        IN  IF HasPart(parts, IsInlinePart)
            THEN extraction = Returned(ImageOf(FirstPart(parts, IsInlinePart)))
            ELSE ~extraction.ok

C14_Witness ==
    /\ pc = "extracted"
    /\ providerResponse.candidates =
           << <<TextPart(<<"Here it is">>), InlinePart(<<"Q", "k">>, undefined)>>,
              <<InlinePart(<<"i", "V", "B">>, <<"image/jpeg">>)>> >>
    /\ extraction = Returned([imageUrl |-> <<"data:", "image/png", ";base64,", "Q", "k">>,
                              base64Data |-> <<"Q", "k">>,
                              mimeType |-> <<"image/png">>])

\* C15 as stated: when no candidate of the response holds an inline part, the
\* error carries the text of the first text part of the response if there is
\* one, and is a protocol violation if there is none or no candidate; no image
\* is returned
C15_TextOfAnyCandidateIsReported ==
    pc = "extracted" =>
        LET parts == AllParts(providerResponse.candidates)
        IN  ~HasPart(parts, IsInlinePart) =>
                /\ ~extraction.ok
                /\ IF HasPart(parts, IsTextPart)
                   THEN EndsWith(extraction.message, FirstPart(parts, IsTextPart).text)
                   ELSE extraction \in ProtocolViolations

\* C15: when the first candidate holds no inline part, the error carries the
\* text of its first text part if it has one, and is a protocol violation if it
\* has none or the candidate list is absent or empty; no image is returned
C15_TextOfFirstCandidateIsReported ==
    pc = "extracted" =>
        LET parts == FirstCandidate(providerResponse)
        IN  ~HasPart(parts, IsInlinePart) =>
                /\ ~extraction.ok
                /\ IF HasPart(parts, IsTextPart)
                   THEN /\ EndsWith(extraction.message, FirstPart(parts, IsTextPart).text)
                        /\ extraction \notin ProtocolViolations
                   ELSE extraction \in ProtocolViolations

C15_Witness ==
    /\ pc = "extracted"
    /\ providerResponse.candidates =
           << <<TextPart(<<>>), TextPart(<<"I cannot draw this">>)>>,
              <<TextPart(<<"Here it is">>)>> >>
    /\ extraction = Thrown(<<"Model returned text instead of image: ",
                             "I cannot draw this">>)

C15_WitnessNone ==
    /\ pc = "extracted"
    /\ providerResponse.candidates = << <<TextPart(<<>>)>> >>
    /\ extraction = Thrown(NO_IMAGE_DATA)

-----------------------------------------------------------------------------
(* The catalog (services/catalogService.ts): getCatalogItems *)

\* limit(50) of both queries
QueryLimit == 50

UnknownType(type) == Thrown(<<"Unknown type: ", type>>)

\* getCollectionName
getCollectionName(type) ==
    CASE type = "style" -> Returned("visual_styles")
      [] type = "color" -> Returned("brand_colors")
      [] type = "type" -> Returned("graphic_types")
      [] OTHER -> UnknownType(type)

\* a catalog document: its scope, its votes and voters fields when it has them
Doc(scope, hasVotes, votes, hasVoters, voters) ==
    [scope |-> scope, hasVotes |-> hasVotes, votes |-> votes,
     hasVoters |-> hasVoters, voters |-> voters]

\* the documents of a snapshot: ids (positions in document-id order) and data
Snapshot(docs, ids) == [i \in DOMAIN ids |-> [id |-> ids[i], data |-> docs[ids[i]]]]

\* mapSnapshot: votes: data.votes || 0, voters: data.voters || []
mapSnapshot_RawVotes(snapshot, type) ==
    [i \in DOMAIN snapshot |->
        [id |-> snapshot[i].id,
         type |-> type,
         data |-> snapshot[i].data,
         votes |-> snapshot[i].data.votes,
         voters |-> snapshot[i].data.voters]]

mapSnapshot(snapshot, type) ==
    [i \in DOMAIN snapshot |->
        [id |-> snapshot[i].id,
         type |-> type,
         data |-> snapshot[i].data,
         votes |-> IF snapshot[i].data.hasVotes THEN snapshot[i].data.votes ELSE 0,
         voters |-> IF snapshot[i].data.hasVoters THEN snapshot[i].data.voters ELSE <<>>]]

Indices(s) == [i \in DOMAIN s |-> i]
Reverse(s) == [i \in DOMAIN s |-> s[Len(s) + 1 - i]]
FirstN(s, n) == SubSeq(s, 1, IF Len(s) < n THEN Len(s) ELSE n)

\* a stable sort of <<key, element>> pairs by decreasing key
RECURSIVE SortDesc(_)
SortDesc(pairs) ==
    IF pairs = <<>> THEN <<>>
    ELSE LET top == CHOOSE k \in {pairs[i][1] : i \in DOMAIN pairs} :
                        \A i \in DOMAIN pairs : pairs[i][1] <= k
             IsTop(x) == x[1] = top
             NotTop(x) == x[1] # top
         IN  SelectSeq(pairs, IsTop) \o SortDesc(SelectSeq(pairs, NotTop))

\* items.sort((a, b) => b.votes - a.votes)
sortByVotes_None(items) == items

sortByVotes(items) ==
    LET sorted == SortDesc([i \in DOMAIN items |-> <<items[i].votes, items[i]>>])
    IN  [i \in DOMAIN sorted |-> sorted[i][2]]

\* where("scope", "==", "public"), limit(50): the first documents in
\* document-id order
unorderedQuery(docs) ==
    LET IsPublic(i) == docs[i].scope = "public"
    IN  Snapshot(docs, FirstN(SelectSeq(Indices(docs), IsPublic), QueryLimit))

\* where("scope", "==", "public"), orderBy("votes", "desc"), limit(50): the
\* documents that have a votes field, by decreasing votes, then by decreasing
\* document id
orderedQuery(docs) ==
    LET HasVotes(i) == docs[i].scope = "public" /\ docs[i].hasVotes
        matching == Reverse(SelectSeq(Indices(docs), HasVotes))
        sorted == SortDesc([i \in DOMAIN matching |-> <<docs[matching[i]].votes, matching[i]>>])
    IN  Snapshot(docs, FirstN([i \in DOMAIN sorted |-> sorted[i][2]], QueryLimit))

\* the documents of the collection asked for
DocKinds ==
    {Doc("public", TRUE, 2, TRUE, <<"u1", "u2">>),
     Doc("public", TRUE, 1, TRUE, <<"u1">>),
     Doc("public", TRUE, 0, TRUE, <<>>),
     Doc("public", FALSE, 0, FALSE, <<>>),
     Doc("private", TRUE, 3, TRUE, <<"u1", "u2", "u3">>)}
Filler == [i \in 1..(QueryLimit - 1) |-> Doc("public", TRUE, 1, TRUE, <<"u1">>)]
Collections ==
    {head \o tail : head \in {<<>>, Filler}, tail \in StringsUpTo(DocKinds, MaxDocs)}
CatalogTypes == {"style", "color", "type", "font"}
QueryErrors == {<<"The query requires an index.">>, <<"unavailable">>}

InitCatalog ==
    /\ pc = "catalog"
    /\ collection \in Collections
    /\ \E type \in CatalogTypes : queried = [type |-> type, queries |-> <<>>, errors |-> <<>>]
    /\ catalogItems = null
    /\ ImageSourceIdle
    /\ OpenAIIdle /\ ExtractIdle /\ VoteIdle /\ UploadIdle

\* getCatalogItems from its call to the await of the ordered query
GetCatalogItems ==
    /\ pc = "catalog"
    /\ IF getCollectionName(queried.type).ok
       THEN /\ queried' = [queried EXCEPT !.queries = Append(@, "ordered")]
            /\ pc' = "catalogOrdered"
            /\ UNCHANGED catalogItems
       ELSE /\ queried' = [queried EXCEPT
                            !.errors = Append(@, getCollectionName(queried.type).message)]
            /\ catalogItems' = <<>>
            /\ pc' = "catalogDone"
    /\ UNCHANGED <<collection, imageSourceVars,
                   openaiVars, extractVars, voteVars, uploadVars>>

\* the ordered query resolves
OrderedQueryResolves ==
    /\ pc = "catalogOrdered"
    /\ catalogItems' = mapSnapshot(orderedQuery(collection), queried.type)
    /\ pc' = "catalogDone"
    /\ UNCHANGED <<collection, queried, imageSourceVars,
                   openaiVars, extractVars, voteVars, uploadVars>>

\* the ordered query rejects: the unordered query is issued
OrderedQueryRejects(message) ==
    /\ pc = "catalogOrdered"
    /\ queried' = [queried EXCEPT !.queries = Append(@, "unordered"),
                                  !.errors = Append(@, message)]
    /\ pc' = "catalogFallback"
    /\ UNCHANGED <<collection, catalogItems, imageSourceVars,
                   openaiVars, extractVars, voteVars, uploadVars>>

\* the unordered query resolves: its items are sorted in memory
FallbackQueryResolves ==
    /\ pc = "catalogFallback"
    /\ catalogItems' = sortByVotes(mapSnapshot(unorderedQuery(collection), queried.type))
    /\ pc' = "catalogDone"
    /\ UNCHANGED <<collection, queried, imageSourceVars,
                   openaiVars, extractVars, voteVars, uploadVars>>

\* the unordered query rejects too: the empty list is returned
FallbackQueryRejects(message) ==
    /\ pc = "catalogFallback"
    /\ queried' = [queried EXCEPT !.errors = Append(@, message)]
    /\ catalogItems' = <<>>
    /\ pc' = "catalogDone"
    /\ UNCHANGED <<collection, imageSourceVars,
                   openaiVars, extractVars, voteVars, uploadVars>>

NextCatalog ==
    \/ GetCatalogItems
    \/ OrderedQueryResolves
    \/ \E message \in QueryErrors : OrderedQueryRejects(message)
    \/ FallbackQueryResolves
    \/ \E message \in QueryErrors : FallbackQueryRejects(message)

SpecCatalog == InitCatalog /\ [][NextCatalog]_vars

(* Claims about getCatalogItems *)

ReturnedIds == {catalogItems[i].id : i \in DOMAIN catalogItems}
StoredVotes(doc) == IF doc.hasVotes THEN doc.votes ELSE 0

\* C16: the list returned holds public items of the collection only, at most
\* 50, by decreasing votes, and no public item left out has more votes than an
\* item of the list, whichever queries were run
C16_TopPublicItemsByVotes ==
    pc = "catalogDone" =>
        /\ Len(catalogItems) <= 50
        /\ \A i \in DOMAIN catalogItems :
            /\ catalogItems[i].id \in DOMAIN collection
            /\ collection[catalogItems[i].id].scope = "public"
            /\ catalogItems[i].votes = StoredVotes(collection[catalogItems[i].id])
        /\ \A i, j \in DOMAIN catalogItems :
            i < j => catalogItems[i].votes >= catalogItems[j].votes
        /\ \A d \in DOMAIN collection :
            (collection[d].scope = "public" /\ d \notin ReturnedIds) =>
                \A i \in DOMAIN catalogItems :
                    StoredVotes(collection[d]) <= catalogItems[i].votes

PublicIds == {d \in DOMAIN collection : collection[d].scope = "public"}
KnownCatalogType == queried.type \in {"style", "color", "type"}
Smaller(a, b) == IF a < b THEN a ELSE b

\* C30: getCatalogItems always resolves to a list: the ordered query alone
\* when it succeeds, the unordered public query sorted in memory when the
\* ordered one failed, the empty list when both failed or the type is
\* unknown; the list holds public items only, at most 50, in non-increasing
\* order of votes, each with a number of votes (0 when the document has none)
\* and a list of voters (empty when the document has none)
C30_AlwaysAListInVoteOrder ==
    pc = "catalogDone" =>
        /\ ~KnownCatalogType =>
               queried.queries = <<>> /\ catalogItems = <<>>
        /\ KnownCatalogType =>
            /\ Len(queried.errors) = 0 => queried.queries = <<"ordered">>
            /\ Len(queried.errors) = 1 =>
                /\ queried.queries = <<"ordered", "unordered">>
                /\ Len(catalogItems) = Smaller(Cardinality(PublicIds), 50)
                /\ Cardinality(ReturnedIds) = Len(catalogItems)
            /\ Len(queried.errors) = 2 =>
                /\ queried.queries = <<"ordered", "unordered">>
                /\ catalogItems = <<>>
            /\ Len(queried.errors) <= 2
        /\ Len(catalogItems) <= 50
        /\ ReturnedIds \subseteq PublicIds
        /\ \A i \in DOMAIN catalogItems :
            LET doc == collection[catalogItems[i].id]
            IN  /\ catalogItems[i].votes \in Int
                /\ catalogItems[i].votes = IF doc.hasVotes THEN doc.votes ELSE 0
                /\ catalogItems[i].voters = IF doc.hasVoters THEN doc.voters ELSE <<>>
        /\ \A i, j \in DOMAIN catalogItems :
            i < j => catalogItems[i].votes >= catalogItems[j].votes

\* the fallback returned a document without votes and voters fields as 0 and
\* the empty list, behind a document with more votes and a later id
C30_Witness ==
    /\ pc = "catalogDone"
    /\ Len(queried.errors) = 1
    /\ \E i, j \in DOMAIN catalogItems :
        /\ i < j /\ catalogItems[i].id > catalogItems[j].id
        /\ ~collection[catalogItems[j].id].hasVotes
        /\ catalogItems[j].votes = 0 /\ catalogItems[j].voters = <<>>
        /\ catalogItems[i].votes > 0

\* both queries failed over a collection with public documents
C30_WitnessBothFailed ==
    /\ pc = "catalogDone"
    /\ Len(queried.errors) = 2
    /\ PublicIds # {}
    /\ catalogItems = <<>>

\* an unknown type
C30_WitnessUnknownType ==
    /\ pc = "catalogDone"
    /\ queried.type = "font"
    /\ queried.errors = << <<"Unknown type: ", "font">> >>
    /\ catalogItems = <<>>

-----------------------------------------------------------------------------
(* The catalog: voteItem *)

ITEM_NOT_FOUND == <<"Item not found">>

\* an argument left out of a call
undefinedArg == "<undefined>"

Contains(s, x) == \E i \in DOMAIN s : s[i] = x

\* data.voters || []
votersOf(data) == IF data.hasVoters THEN data.voters ELSE <<>>

\* the write voteItem decides on after its read: 'up', 'down' or none
voteWrite_NoGate(data, userId, action) ==
    IF action = "up" THEN "up" ELSE IF action = "down" THEN "down" ELSE "none"

voteWrite(data, userId, action) ==
    LET hasVoted == Contains(votersOf(data), userId)
    IN  IF action = "up" /\ ~hasVoted THEN "up"
        ELSE IF action = "down" /\ hasVoted THEN "down"
        ELSE "none"

\* votes: increment(n)
increment(data, n) == (IF data.hasVotes THEN data.votes ELSE 0) + n

\* an array write that appends without looking for the element
arrayUnion_Append(data, userId) == Append(votersOf(data), userId)

\* voters: arrayUnion(userId)
arrayUnion(data, userId) ==
    IF Contains(votersOf(data), userId) THEN votersOf(data)
    ELSE Append(votersOf(data), userId)

\* voters: arrayRemove(userId)
arrayRemove(data, userId) ==
    LET Other(v) == v # userId
    IN  SelectSeq(votersOf(data), Other)

\* updateDoc(itemRef, {votes: increment(+-1), voters: arrayUnion/arrayRemove(userId)})
updateDoc(data, write, userId) ==
    IF write = "up"
    THEN [data EXCEPT !.hasVotes = TRUE, !.votes = increment(data, 1),
                      !.hasVoters = TRUE, !.voters = arrayUnion(data, userId)]
    ELSE [data EXCEPT !.hasVotes = TRUE, !.votes = increment(data, -1),
                      !.hasVoters = TRUE, !.voters = arrayRemove(data, userId)]

\* doc(db, collectionName, itemId)
itemRef(call) == <<getCollectionName(call.type).value, call.itemId>>

RemoveAt(s, i) == SubSeq(s, 1, i - 1) \o SubSeq(s, i + 1, Len(s))

\* a voteItem call settles: what its catch and the catch of handleVote log
Settle(i, result) ==
    /\ voting' = RemoveAt(voting, i)
    /\ voteLog' = Append(voteLog, [call |-> [voting[i] EXCEPT !.at = "settled"],
                                   result |-> result])
    /\ errorLog' = errorLog
            \o (IF result.ok THEN <<>> ELSE <<"Error voting">>)
            \o (IF ~result.ok /\ voting[i].from = "handleVote"
                THEN <<"Vote failed">> ELSE <<>>)

\* voteItem from its call to the await of getDoc
voteItem(type, itemId, userId, action, from) ==
    LET call == [type |-> type, itemId |-> itemId, userId |-> userId,
                 action |-> action, from |-> from, at |-> "getDoc", write |-> "none"]
    IN  IF getCollectionName(type).ok
        THEN /\ voting' = Append(voting, call)
             /\ UNCHANGED <<voteLog, errorLog>>
        ELSE /\ voteLog' = Append(voteLog, [call |-> [call EXCEPT !.at = "settled"],
                                            result |-> getCollectionName(type)])
             /\ errorLog' = errorLog \o <<"Error voting">>
                    \o (IF from = "handleVote" THEN <<"Vote failed">> ELSE <<>>)
             /\ UNCHANGED voting

\* what voteItem is called with, and the documents votes are cast on
VoteTypes == {"style", "font"}
VoteItemIds == {"i1", "i9"}
Users == {"u1", "u2"}
VoteActions == {"up", "down"}
VotedDocs ==
    {Doc("public", TRUE, 0, TRUE, <<>>),
     Doc("public", TRUE, 1, TRUE, <<"u1">>),
     Doc("public", TRUE, 2, TRUE, <<"u2", "u1">>),
     Doc("public", TRUE, 5, TRUE, <<"u2">>),
     Doc("public", FALSE, 0, FALSE, <<>>)}
FirestoreErrors == {<<"permission-denied">>}

InitVote ==
    /\ pc = "vote"
    /\ \E data \in VotedDocs : store = (<<"visual_styles", "i1">> :> data)
    /\ initialStore = store
    /\ voting = <<>> /\ modal = null /\ voteLog = <<>> /\ errorLog = <<>>
    /\ ImageSourceIdle
    /\ OpenAIIdle /\ ExtractIdle /\ CatalogIdle /\ UploadIdle

\* a caller calls voteItem once the call before has settled
VoteItem(type, itemId, userId, action) ==
    /\ pc = "vote"
    /\ voting = <<>>
    /\ Len(voteLog) < MaxVotes
    /\ voteItem(type, itemId, userId, action, "caller")
    /\ UNCHANGED <<pc, store, modal, initialStore, imageSourceVars,
                   openaiVars, extractVars, catalogVars, uploadVars>>

\* getDoc resolves: the item is missing, or the write is decided on and issued
GetDocResolves(i) ==
    /\ voting[i].at = "getDoc"
    /\ IF itemRef(voting[i]) \notin DOMAIN store
       THEN Settle(i, Thrown(ITEM_NOT_FOUND))
       ELSE LET write == voteWrite(store[itemRef(voting[i])], voting[i].userId,
                                   voting[i].action)
            IN  IF write = "none"
                THEN Settle(i, Returned(undefinedArg))
                ELSE /\ voting' = [voting EXCEPT ![i].at = "updateDoc", ![i].write = write]
                     /\ UNCHANGED <<voteLog, errorLog>>
    /\ UNCHANGED <<pc, store, modal, initialStore, imageSourceVars,
                   openaiVars, extractVars, catalogVars, uploadVars>>

GetDocRejects(i, message) ==
    /\ voting[i].at = "getDoc"
    /\ Settle(i, Thrown(message))
    /\ UNCHANGED <<pc, store, modal, initialStore, imageSourceVars,
                   openaiVars, extractVars, catalogVars, uploadVars>>

\* updateDoc resolves: the increment and the array change are applied to the
\* document as it is now
UpdateDocResolves(i) ==
    /\ voting[i].at = "updateDoc"
    /\ store' = [store EXCEPT ![itemRef(voting[i])] =
                    updateDoc(@, voting[i].write, voting[i].userId)]
    /\ Settle(i, Returned(undefinedArg))
    /\ UNCHANGED <<pc, modal, initialStore, imageSourceVars,
                   openaiVars, extractVars, catalogVars, uploadVars>>

UpdateDocRejects(i, message) ==
    /\ voting[i].at = "updateDoc"
    /\ Settle(i, Thrown(message))
    /\ UNCHANGED <<pc, store, modal, initialStore, imageSourceVars,
                   openaiVars, extractVars, catalogVars, uploadVars>>

NextVote ==
    \/ \E type \in VoteTypes, itemId \in VoteItemIds, userId \in Users,
          action \in VoteActions : VoteItem(type, itemId, userId, action)
    \/ \E i \in DOMAIN voting : GetDocResolves(i)
    \/ \E i \in DOMAIN voting, message \in FirestoreErrors : GetDocRejects(i, message)
    \/ \E i \in DOMAIN voting : UpdateDocResolves(i)
    \/ \E i \in DOMAIN voting, message \in FirestoreErrors : UpdateDocRejects(i, message)

SpecVote == InitVote /\ [][NextVote]_vars

(* Claims about voteItem *)

VoterSet(doc) == IF doc.hasVoters THEN {doc.voters[i] : i \in DOMAIN doc.voters} ELSE {}
VoterCount(doc) == IF doc.hasVoters THEN Len(doc.voters) ELSE 0
CollectionOf == ("style" :> "visual_styles") @@ ("color" :> "brand_colors")
                    @@ ("type" :> "graphic_types")

\* in every document the votes gained since the start are the voters gained,
\* and no voter is listed twice
Balanced(docs, initial) ==
    \A key \in DOMAIN docs :
        /\ StoredVotes(docs[key]) - StoredVotes(initial[key])
               = VoterCount(docs[key]) - VoterCount(initial[key])
        /\ Cardinality(VoterSet(docs[key])) = VoterCount(docs[key])

\* the step settles a call: what the call has done to the stored documents
SettledAsVoted ==
    LET entry == voteLog'[Len(voteLog')]
        userId == entry.call.userId
        key == <<CollectionOf[entry.call.type], entry.call.itemId>>
    IN  IF ~entry.result.ok THEN store' = store
        ELSE /\ key \in DOMAIN store
             /\ DOMAIN store' = DOMAIN store
             /\ \A other \in DOMAIN store : other # key => store'[other] = store[other]
             /\ IF entry.call.action = "up" /\ userId \notin VoterSet(store[key])
                THEN /\ StoredVotes(store'[key]) = StoredVotes(store[key]) + 1
                     /\ VoterSet(store'[key]) = VoterSet(store[key]) \cup {userId}
                ELSE IF entry.call.action = "down" /\ userId \in VoterSet(store[key])
                THEN /\ StoredVotes(store'[key]) = StoredVotes(store[key]) - 1
                     /\ VoterSet(store'[key]) = VoterSet(store[key]) \ {userId}
                ELSE store' = store

\* C17: with one voteItem call at a time, a call that returns has added 1 to
\* votes and the user to voters ('up', user not a voter), or taken 1 from votes
\* and the user from voters ('down', user a voter), or written nothing; a call
\* that throws has written nothing; at every moment no voter is listed twice
\* and votes has moved from its initial value by as much as the number of
\* voters has
C17_VotesFollowVoters ==
    [][/\ Len(voteLog') > Len(voteLog) => SettledAsVoted
       /\ Len(voteLog') = Len(voteLog) => store' = store
       /\ Balanced(store', initialStore)]_vars

C17_Witness ==
    /\ pc = "vote"
    /\ Len(voteLog) = 2
    /\ voteLog[1].result.ok /\ voteLog[1].call.action = "up" /\ voteLog[1].call.userId = "u1"
    /\ voteLog[2].result.ok /\ voteLog[2].call.action = "down" /\ voteLog[2].call.userId = "u2"
    /\ initialStore[<<"visual_styles", "i1">>] = Doc("public", TRUE, 5, TRUE, <<"u2">>)
    /\ store[<<"visual_styles", "i1">>] = Doc("public", TRUE, 5, TRUE, <<"u1">>)

(* Overlapping voteItem calls: nothing in voteItem, and nothing in its        *)
(* callers, waits for an earlier call to settle.                             *)

InitVoteRace ==
    /\ pc = "voteRace"
    /\ \E data \in VotedDocs : store = (<<"visual_styles", "i1">> :> data)
    /\ initialStore = store
    /\ voting = <<>> /\ modal = null /\ voteLog = <<>> /\ errorLog = <<>>
    /\ ImageSourceIdle
    /\ OpenAIIdle /\ ExtractIdle /\ CatalogIdle /\ UploadIdle

\* a caller calls voteItem while earlier calls may be at their awaits
VoteItemOverlapping(type, itemId, userId, action) ==
    /\ pc = "voteRace"
    /\ Len(voting) + Len(voteLog) < MaxVotes
    /\ voteItem(type, itemId, userId, action, "caller")
    /\ UNCHANGED <<pc, store, modal, initialStore, imageSourceVars,
                   openaiVars, extractVars, catalogVars, uploadVars>>

NextVoteRace ==
    \/ \E type \in VoteTypes, itemId \in VoteItemIds, userId \in Users,
          action \in VoteActions : VoteItemOverlapping(type, itemId, userId, action)
    \/ \E i \in DOMAIN voting : GetDocResolves(i)
    \/ \E i \in DOMAIN voting, message \in FirestoreErrors : GetDocRejects(i, message)
    \/ \E i \in DOMAIN voting : UpdateDocResolves(i)
    \/ \E i \in DOMAIN voting, message \in FirestoreErrors : UpdateDocRejects(i, message)

SpecVoteRace == InitVoteRace /\ [][NextVoteRace]_vars

\* the first two calls to settle were made by one user on one item, both
\* passed the has-voted check for the write given and both wrote
BothWrote(write) ==
    /\ Len(voteLog) = 2
    /\ \A n \in 1..2 :
        /\ voteLog[n].result.ok
        /\ voteLog[n].call.action = write
        /\ voteLog[n].call.write = write
    /\ voteLog[1].call.userId = voteLog[2].call.userId
    /\ voteLog[1].call.type = voteLog[2].call.type
    /\ voteLog[1].call.itemId = voteLog[2].call.itemId

Occurrences(doc, userId) ==
    Cardinality({i \in 1..VoterCount(doc) : doc.voters[i] = userId})

\* C25: two voteItem('up') calls of one user on one item that both passed the
\* has-voted check leave votes 2 higher and the user listed once, one voter
\* more than before; two 'down' calls that both passed leave votes 2 lower
\* with the user, listed once before, gone
C25_OverlappingVotesCountTwice ==
    LET key == <<CollectionOf[voteLog[1].call.type], voteLog[1].call.itemId>>
        userId == voteLog[1].call.userId
    IN  /\ BothWrote("up") =>
            /\ StoredVotes(store[key]) = StoredVotes(initialStore[key]) + 2
            /\ Occurrences(store[key], userId) = 1
            /\ VoterCount(store[key]) = VoterCount(initialStore[key]) + 1
            /\ ~Balanced(store, initialStore)
        /\ BothWrote("down") =>
            /\ StoredVotes(store[key]) = StoredVotes(initialStore[key]) - 2
            /\ Occurrences(store[key], userId) = 0
            /\ VoterCount(store[key]) = VoterCount(initialStore[key]) - 1
            /\ ~Balanced(store, initialStore)

\* u1 voted up twice on an item with 5 votes of u2: 7 votes, two voters
C25_Witness ==
    /\ pc = "voteRace"
    /\ BothWrote("up")
    /\ voteLog[1].call.userId = "u1"
    /\ initialStore[<<"visual_styles", "i1">>] = Doc("public", TRUE, 5, TRUE, <<"u2">>)
    /\ store[<<"visual_styles", "i1">>] = Doc("public", TRUE, 7, TRUE, <<"u2", "u1">>)

\* u1 took the vote back twice from an item with 1 vote: -1 votes, no voter
C25_WitnessDown ==
    /\ pc = "voteRace"
    /\ BothWrote("down")
    /\ initialStore[<<"visual_styles", "i1">>] = Doc("public", TRUE, 1, TRUE, <<"u1">>)
    /\ store[<<"visual_styles", "i1">>] = Doc("public", TRUE, -1, TRUE, <<>>)

-----------------------------------------------------------------------------
(* CatalogModal: handleVote *)

\* handleVote without its optimistic update
optimisticUpdate_None(item, userId, hasVoted) == item

\* the optimistic update of one local item
optimisticUpdate(item, userId, hasVoted) ==
    LET Other(v) == v # userId
    IN  [item EXCEPT !.votes = IF hasVoted THEN @ - 1 ELSE @ + 1,
                     !.voters = IF hasVoted THEN SelectSeq(@, Other)
                                ELSE Append(@, userId)]

\* what the modal is opened with: the signed-in user or none, the category,
\* and the items loaded from the category's collection
ModalUsers == {"u1", "", undefinedArg}
ModalCategories == {"style", "color"}
ModalItemIds == {"i1", "style"}

InitModal ==
    /\ pc = "modal"
    /\ \E category \in ModalCategories, id \in ModalItemIds, data \in VotedDocs,
          userId \in ModalUsers :
        /\ store = (<<getCollectionName(category).value, id>> :> data)
        /\ modal = [userId |-> userId, category |-> category,
                    items |-> mapSnapshot(<<[id |-> id, data |-> data]>>, category)]
    /\ initialStore = store
    /\ voting = <<>> /\ voteLog = <<>> /\ errorLog = <<>>
    /\ ImageSourceIdle
    /\ OpenAIIdle /\ ExtractIdle /\ CatalogIdle /\ UploadIdle

\* the vote button of item k is clicked: handleVote(item.id, item.votes,
\* userId ? item.voters.includes(userId) : false) up to the await of voteItem,
\* which is called with three arguments
HandleVote(k) ==
    /\ pc = "modal"
    /\ Len(voteLog) + Len(voting) < MaxVotes
    /\ LET itemId == modal.items[k].id
           signedIn == modal.userId # undefinedArg /\ modal.userId # ""
           hasVoted == signedIn /\ Contains(modal.items[k].voters, modal.userId)
       IN  IF ~signedIn
           THEN UNCHANGED <<modal, voting, voteLog, errorLog>>
           ELSE /\ modal' = [modal EXCEPT !.items =
                        [j \in DOMAIN modal.items |->
                            IF modal.items[j].id = itemId
                            THEN optimisticUpdate(modal.items[j], modal.userId, hasVoted)
                            ELSE modal.items[j]]]
                /\ voteItem(itemId, modal.userId, IF hasVoted THEN "down" ELSE "up",
                            undefinedArg, "handleVote")
    /\ UNCHANGED <<pc, store, initialStore, imageSourceVars,
                   openaiVars, extractVars, catalogVars, uploadVars>>

NextModal ==
    \/ \E k \in DOMAIN modal.items : HandleVote(k)
    \/ \E i \in DOMAIN voting : GetDocResolves(i)
    \/ \E i \in DOMAIN voting, message \in FirestoreErrors : GetDocRejects(i, message)

SpecModal == InitModal /\ [][NextModal]_vars

(* Claims about handleVote *)

\* C18: once the voteItem calls of handleVote have settled, each was made for
\* the category of the modal, an item of the list, the signed-in user and the
\* action 'up' or 'down', and every stored item has the votes and the voters
\* of its local, optimistically updated, copy
C18_StoredItemEqualsOptimisticUpdate ==
    (pc = "modal" /\ voting = <<>>) =>
        /\ \A n \in DOMAIN voteLog :
            /\ voteLog[n].call.type = modal.category
            /\ \E k \in DOMAIN modal.items : voteLog[n].call.itemId = modal.items[k].id
            /\ voteLog[n].call.userId = modal.userId
            /\ voteLog[n].call.action \in {"up", "down"}
        /\ \A k \in DOMAIN modal.items :
            LET stored == store[<<CollectionOf[modal.category], modal.items[k].id>>]
            IN  /\ StoredVotes(stored) = modal.items[k].votes
                /\ VoterSet(stored) = {modal.items[k].voters[v] :
                                           v \in DOMAIN modal.items[k].voters}

SignedIn == modal.userId # undefinedArg /\ modal.userId # ""
CallsIssued == Len(voting) + Len(voteLog)
ListedOnce(voters, userId) ==
    Cardinality({v \in DOMAIN voters : voters[v] = userId}) = 1

\* the step took item k of the local list from its state to the optimistic
\* update for the signed-in user
OptimisticallyUpdated(k) ==
    LET before == modal.items[k]
        after == modal'.items[k]
        hadVoted == Contains(before.voters, modal.userId)
        Other(v) == v # modal.userId
    IN  /\ after.id = before.id
        /\ hadVoted =>
            /\ after.votes = before.votes - 1
            /\ after.voters = SelectSeq(before.voters, Other)
        /\ ~hadVoted =>
            /\ after.votes = before.votes + 1
            /\ ListedOnce(after.voters, modal.userId)
            /\ SelectSeq(after.voters, Other) = before.voters
        /\ \A j \in DOMAIN modal.items : j # k => modal'.items[j] = modal.items[j]

\* C26: the step of handleVote that issues the voteItem call has already
\* applied the optimistic update to the local list; no other step touches the
\* local list, so a failed call, which is logged, leaves the update in place;
\* without a signed-in user nothing changes and no call is issued
C26_OptimisticUpdateIsKept ==
    [][/\ ~SignedIn => UNCHANGED <<modal, voting, voteLog, errorLog, store>>
       /\ CallsIssued' > CallsIssued =>
            /\ SignedIn
            /\ \E k \in DOMAIN modal.items : OptimisticallyUpdated(k)
       /\ CallsIssued' = CallsIssued => modal' = modal
       /\ (Len(voteLog') > Len(voteLog) /\ ~voteLog'[Len(voteLog')].result.ok) =>
            /\ errorLog' = errorLog \o <<"Error voting", "Vote failed">>
            /\ store' = store]_vars

\* a vote that failed after the await: the failure logged, the local item one
\* vote ahead of the stored item
C26_Witness ==
    /\ pc = "modal"
    /\ modal.userId = "u1"
    /\ voting = <<>>
    /\ Len(voteLog) = 1 /\ ~voteLog[1].result.ok
    /\ voteLog[1].call.type = "style"
    /\ errorLog = <<"Error voting", "Vote failed">>
    /\ store = initialStore
    /\ \E k \in DOMAIN modal.items :
        LET stored == store[<<CollectionOf[modal.category], modal.items[k].id>>]
        IN  /\ modal.items[k].votes = StoredVotes(stored) + 1
            /\ Contains(modal.items[k].voters, "u1")
            /\ "u1" \notin VoterSet(stored)

-----------------------------------------------------------------------------
(* The profile photo upload (services/imageService.ts) *)

(* A file is its MIME type, its size in bytes and its name.  The type is a   *)
(* sequence of tokens whose first is the part up to and including the '/';   *)
(* the name is the sequence of its parts between the dots, "a.png" being     *)
(* <<"a", "png">> and "pic." being <<"pic", "">>.                            *)

NOT_AN_IMAGE == <<"Please upload an image file (JPEG, PNG, etc.)">>
IMAGE_TOO_LARGE == <<"Image size must be less than 2MB">>
UPLOAD_FAILED == <<"Failed to upload image. Please try again.">>
MAX_PROFILE_IMAGE_SIZE == 2 * 1024 * 1024

\* file.type.startsWith('image/')
startsWithImage(type) == type # <<>> /\ Head(type) = "image/"

\* the two validations: the error thrown, or nothing
validateUpload_AtLeast(file) ==
    IF ~startsWithImage(file.type) THEN Thrown(NOT_AN_IMAGE)
    ELSE IF file.size >= MAX_PROFILE_IMAGE_SIZE THEN Thrown(IMAGE_TOO_LARGE)
    ELSE Returned(undefinedArg)

validateUpload(file) ==
    IF ~startsWithImage(file.type) THEN Thrown(NOT_AN_IMAGE)
    ELSE IF file.size > MAX_PROFILE_IMAGE_SIZE THEN Thrown(IMAGE_TOO_LARGE)
    ELSE Returned(undefinedArg)

\* file.name.split('.').pop() || 'jpg'
fileExtension(name) == IF name[Len(name)] # "" THEN name[Len(name)] ELSE "jpg"

\* ref(storage, `users/${userId}/profile.${fileExtension}`)
storageRef(file, userId) == <<"users/", userId, "/profile.", fileExtension(file.name)>>

downloadURL(path) == <<"https://firebasestorage/">> \o path

File(type, size, name) == [type |-> type, size |-> size, name |-> name]

\* what uploadProfileImage is called with
Files ==
    {File(<<"image/", "png">>, 1000, <<"a", "png">>),
     File(<<"image/", "jpeg">>, 1000, <<"b", "jpg">>),
     File(<<"image/", "png">>, MAX_PROFILE_IMAGE_SIZE, <<"z", "png">>),
     File(<<"image/", "png">>, MAX_PROFILE_IMAGE_SIZE + 1, <<"big", "png">>),
     File(<<"image/", "webp">>, 0, <<"photo">>),
     File(<<"image/", "gif">>, MAX_PROFILE_IMAGE_SIZE - 1, <<"pic", "">>),
     File(<<"application/", "pdf">>, 1000, <<"scan", "png">>),
     File(<<>>, MAX_PROFILE_IMAGE_SIZE + 1, <<"raw", "tar", "gz">>)}
StorageErrors == {<<"storage/unauthorized">>}

InitUpload ==
    /\ pc = "upload"
    /\ storage = <<>> /\ uploading = null /\ uploads = <<>>
    /\ ImageSourceIdle
    /\ OpenAIIdle /\ ExtractIdle /\ CatalogIdle /\ VoteIdle

\* an uploadProfileImage call settles
Settled(file, userId, storageCalls, result) ==
    /\ uploads' = Append(uploads, [file |-> file, userId |-> userId,
                                   calls |-> storageCalls, result |-> result])
    /\ uploading' = null

\* uploadProfileImage from its call to the await of uploadBytes
UploadProfileImage(file, userId) ==
    /\ pc = "upload"
    /\ uploading = null
    /\ Len(uploads) < MaxUploads
    /\ IF validateUpload(file).ok
       THEN /\ uploading' = [file |-> file, userId |-> userId,
                             storageRef |-> storageRef(file, userId),
                             calls |-> <<"uploadBytes">>]
            /\ UNCHANGED uploads
       ELSE Settled(file, userId, <<>>, validateUpload(file))
    /\ UNCHANGED <<pc, storage, imageSourceVars,
                   openaiVars, extractVars, catalogVars, voteVars>>

\* uploadBytes resolves: the object is written at the reference
UploadBytesResolves ==
    /\ pc = "upload"
    /\ uploading # null
    /\ uploading.calls = <<"uploadBytes">>
    /\ storage' = [path \in DOMAIN storage \cup {uploading.storageRef} |->
                      IF path = uploading.storageRef THEN uploading.file
                      ELSE storage[path]]
    /\ uploading' = [uploading EXCEPT !.calls = Append(@, "getDownloadURL")]
    /\ UNCHANGED <<pc, uploads, imageSourceVars,
                   openaiVars, extractVars, catalogVars, voteVars>>

\* getDownloadURL resolves: the URL is returned
GetDownloadURLResolves ==
    /\ pc = "upload"
    /\ uploading # null
    /\ uploading.calls = <<"uploadBytes", "getDownloadURL">>
    /\ Settled(uploading.file, uploading.userId, uploading.calls,
               Returned(downloadURL(uploading.storageRef)))
    /\ UNCHANGED <<pc, storage, imageSourceVars,
                   openaiVars, extractVars, catalogVars, voteVars>>

\* uploadBytes or getDownloadURL rejects: the catch throws the generic error
StorageCallRejects(message) ==
    /\ pc = "upload"
    /\ uploading # null
    /\ Settled(uploading.file, uploading.userId, uploading.calls, Thrown(UPLOAD_FAILED))
    /\ UNCHANGED <<pc, storage, imageSourceVars,
                   openaiVars, extractVars, catalogVars, voteVars>>

NextUpload ==
    \/ \E file \in Files, userId \in Users : UploadProfileImage(file, userId)
    \/ UploadBytesResolves
    \/ GetDownloadURLResolves
    \/ \E message \in StorageErrors : StorageCallRejects(message)

SpecUpload == InitUpload /\ [][NextUpload]_vars

(* Claims about uploadProfileImage *)

\* C19: after uploads that all succeeded, a user has at most one stored
\* profile object, the file uploaded last, whatever the names of the files:
\* each upload has overwritten the object of the upload before
C19_OneProfileObjectPerUser ==
    (uploading = null /\ \A n \in DOMAIN uploads : uploads[n].result.ok) =>
        \A userId \in Users :
            Cardinality({path \in DOMAIN storage : path[2] = userId}) <= 1

\* C20: a file whose type does not start with 'image/' is refused with the
\* image-file message and a file of more than 2 * 1024 * 1024 bytes with the
\* size message, both before any storage call; an image file of at most that
\* size, the exact size included, is handed to uploadBytes, and the call then
\* returns or throws the generic upload error
C20_ValidationBeforeStorage ==
    /\ uploading # null =>
        /\ Head(uploading.file.type) = "image/"
        /\ uploading.file.size <= 2 * 1024 * 1024
    /\ \A n \in DOMAIN uploads :
        LET file == uploads[n].file
            isImage == file.type # <<>> /\ file.type[1] = "image/"
        IN  IF ~isImage
            THEN uploads[n].result = Thrown(NOT_AN_IMAGE) /\ uploads[n].calls = <<>>
            ELSE IF file.size > 2 * 1024 * 1024
            THEN uploads[n].result = Thrown(IMAGE_TOO_LARGE) /\ uploads[n].calls = <<>>
            ELSE /\ uploads[n].calls # <<>> /\ uploads[n].calls[1] = "uploadBytes"
                 /\ uploads[n].result.ok \/ uploads[n].result = Thrown(UPLOAD_FAILED)
                 /\ uploads[n].result.ok =>
                        uploads[n].calls = <<"uploadBytes", "getDownloadURL">>

C20_Witness ==
    /\ Len(uploads) = 1
    /\ uploads[1].file = File(<<"image/", "png">>, 2097152, <<"z", "png">>)
    /\ uploads[1].result.ok
    /\ storage[<<"users/", "u1", "/profile.", "png">>] = uploads[1].file

C20_WitnessRefused ==
    /\ Len(uploads) = 1
    /\ uploads[1].file.size = 2097153
    /\ uploads[1].result = Thrown(IMAGE_TOO_LARGE)
    /\ storage = <<>>

C20_WitnessStorageFailure ==
    /\ Len(uploads) = 1
    /\ uploads[1].calls = <<"uploadBytes">>
    /\ uploads[1].result = Thrown(UPLOAD_FAILED)

====
